---- MODULE Spec2Model ----
(***************************************************************************)
(* Browser-side content-protection scripts of the customer portal.         *)
(*                                                                         *)
(* Part 1: the queued violation reporters                                  *)
(*   warning_only : static/js/customer-security-balanced.js (2nd IIFE)     *)
(*   strict       : customer-security-strict.js                            *)
(*   ucp          : static/js/ultimate_content_protection.js               *)
(* Part 2: the violation counters that terminate the session               *)
(*   core         : static/js/customer-security-core.js                    *)
(*   banking      : customer-security-final.js                             *)
(*   with their blur overlay and their idle and session timeouts           *)
(* Part 3: the notification socket                                         *)
(*   notifications: websocket-notifications.js (NotificationWebSocket)     *)
(*                                                                         *)
(* Every handler (DOM listener, timer callback, promise continuation) runs *)
(* to completion on the UI thread, so each is one atomic action.  Time is  *)
(* Date.now() in milliseconds; timers fire at or after their due time.     *)
(***************************************************************************)
EXTENDS Integers, Sequences, FiniteSets, Bags, TLC

\* ------------------------------------------------------------------------
\* Bounds of the model
\* ------------------------------------------------------------------------
MaxEnqueue == 3
MaxShortWaits == 1
MaxLongWaits == 1
MaxViolationEvents == 7
MaxBankingEvents == 5
MaxDeliveryEvents == 5
MaxBlurEvents == 2
MaxIdleSeconds == 2
MaxIdleMinutes == 15
MaxIdleViolations == 1
MaxSockets == 8
MaxSocketTicks == 16
MaxFrames == 3
MaxCalls == 1
MaxFrameSockets == 2
MaxFrameTicks == 21
MaxKeyPresses == 1
MaxNavigations == 1
MaxCounterEvents == 5
MaxCounterMinutes == 6
MaxCounterSeconds == 1
MaxCounterBlurs == 1
MaxCounterBanking == 3
MaxDrainRests == 1
MaxDevTicks == 6
MaxAdvEvents == 4
MaxProtEvents == 3

\* ------------------------------------------------------------------------
\* Program constants
\* ------------------------------------------------------------------------
DEBOUNCE_MS == 2000
DRAIN_DELAY_MS == 100
CoreMaxViolations == 5
CoreWarnThreshold == 3
BankingMaxViolations == 3
sessionTimeout == 15 * 60 * 1000
idleTimeout == 5 * 60 * 1000
warningTime == 2 * 60 * 1000
CHECK_INTERVAL_MS == 1000
MINUTE_MS == 60 * 1000
maxReconnectAttempts == 5
reconnectDelay == 3000
HEARTBEAT_MS == 30000

\* Date.now() when the page loads (any positive number: Date.now() is
\* never 0, so a stored time is always truthy).
StartTime == 10000

QueueScripts == {"warning_only", "strict", "ucp"}
SessionScripts == {"core", "banking"}

\* window.lastLogTime is written by these two scripts only.
DebouncedScripts == {"warning_only", "strict"}

\* violation types passed to logActivity / logViolation by the listeners
\* (a sample of them: the type is only copied into the request body)
ViolationTypes(s) ==
    CASE s = "warning_only" -> {"right_click_attempt"}
      [] s = "strict"       -> {"right_click_blocked", "copy_blocked"}
      [] s = "ucp"          -> {"right_click"}
      [] s = "core"         -> {"screenshot_attempt", "copy_attempt"}
      [] s = "banking"      -> {"right_click_attempt", "copy_attempt"}

\* how a fetch() of a violation report can settle
FetchOutcomes == {"ok", "http_error", "network_error"}

\* event types handed to logSecurityEvent by the core script
CoreEvents == {"security_violation", "session_terminated", "screen_blurred",
               "session_timeout"}

\* reasons passed to blurScreen by the detectors of each script
BlurReasons(s) ==
    IF s = "core" THEN {"recording_tool_detected", "debugger_detected"}
    ELSE {"Developer tools detected"}

\* elapsed-time steps of the clock between two handlers
TimeSteps == {DRAIN_DELAY_MS, DEBOUNCE_MS}

\* the instants at which handlers run
ClockValues ==
    {StartTime + a * DRAIN_DELAY_MS + b * DEBOUNCE_MS :
        a \in 0..MaxShortWaits, b \in 0..MaxLongWaits}

VARIABLES
    sizeDiff,       \* window.outerWidth - innerWidth and outerHeight - innerHeight
    devtoolsOpen,   \* per script: devtoolsOpen / state.devToolsOpen of its size heuristic
    pollDue,        \* per script: next due time of its setInterval(detectDevTools)
    pollsAbove,     \* history, per script: consecutive polls that saw a difference above the threshold
    episodeReports, \* history, per script: violations its heuristic reported since its last poll at or below
    initialized,    \* ucp / professional: number of initialize() runs, i.e. copies of each listener
    blurActive,     \* ucp: blurOverlayActive; professional: isBlurActive
    blurOverlays,   \* ucp / professional: number of blur overlay elements attached
    blurShown,      \* history, per script: number of overlays attached so far
    tawkActive,     \* isTawkActive(): a visible chat widget element exists
    blackScreen,    \* ucp: the attached #security-black-screen element (0: none)
    blackScreensMade, \* ucp: number of black screen elements created so far
    protTimers,     \* ucp / professional: bag of pending setTimeout callbacks: kind, element, due time
    lastViolationTime, \* ucp: lastViolationTime
    profViolationCount, \* professional: violationCount
    profRequests,   \* history: number of fetch() calls of the professional logViolation
    lastBlocked,    \* history, per script: latest contextmenu / copy / keydown event and the logViolation calls of its listeners
    protEvents,     \* history: number of events dispatched to the ucp / professional listeners
    docHidden,      \* document.hidden
    winFocused,     \* the window has the focus
    advOverlay,     \* advanced: the attached #screenshot-blur-overlay element (0: none)
    advOverlaysMade, \* advanced: number of overlay elements created so far
    advRemoveTimers, \* advanced: pending setTimeout(() => overlay.remove(), 300): element, due time
    advTempTimers,  \* advanced: due times of the pending 3 s timers of blurContentTemporarily
    focusLossCount, \* advanced: focusLossCount
    lastFocusLoss,  \* advanced: lastFocusLoss
    advEvents,      \* history: number of focus, blur and visibilitychange events so far
    keyEvent,       \* the keyboard event being dispatched and the focused element
    prevented,      \* per script: its listeners called preventDefault on it
    calls,          \* per script: the kinds reported during the current key press
    presses,        \* key presses so far
    pressBase,      \* violations of the core script when the current press began
    tokenFound,     \* per script: the token its last lookup returned
    location,       \* window.location.href, as the number of URL changes so far
    payloads,       \* per script: the request bodies handed to fetch()
    firedAt,        \* per script: URL and time of each logActivity / logViolation call
    loaded,         \* the scripts included in the page
    now,            \* Date.now()
    tokenSources,   \* the csrf-token meta tag, the csrfmiddlewaretoken field, the csrftoken cookie
    lastLogTime,    \* window.lastLogTime (0: undefined)
    logQueue,       \* logQueue of each script
    isLogging,      \* isLogging of each script
    timers,         \* pending setTimeout(processLogQueue, 100) of each script: due times
    inflight,       \* fetch() requests of each script not yet settled
    enqueued,       \* history: id and type of every record pushed, in order
    pushedAt,       \* history: time of the first and of the latest push
    sent,           \* history: id of the record of every fetch() issued, in order
    lastSentAt,     \* history: time of the latest fetch() (0: none yet)
    settled,        \* history: every settled fetch(): record id, outcome
    lastSettledAt,  \* history: time at which the latest fetch() settled (0: none yet)
    lastTick,       \* history: record taken by the latest drain step and what became of it
    violationCount,          \* ucp: violationCount
    suspiciousActivityLevel, \* ucp: suspiciousActivityLevel
    violations,     \* core / banking: state.violations
    body,           \* core / banking: "page" or "terminated" (document.body.innerHTML replaced)
    blockRenders,   \* core / banking: number of times the termination view was rendered
    violationWarning, \* core: id of the attached #violation-warning element (0: none)
    warningsShown,  \* core: number of showViolationWarning calls
    warningTimers,  \* core: ids of the warnings whose 5 s removal timer is pending
    reports,        \* core: events handed to logSecurityEvent; banking: requests of logViolation
    pending,        \* banking: violation report requests not yet settled
    coreInflight,   \* core: number of unsettled fetch() of logSecurityEvent, per event type
    delivered,      \* history: number of violation reports answered with success
    isBlurred,      \* core / banking: state.isBlurred
    overlays,       \* core / banking: number of #blur-overlay nodes attached to the document
    lastActivity,   \* core / banking: state.lastActivity
    sessionStart,   \* core / banking: state.sessionStart
    warningShown,   \* core / banking: state.warningShown
    timeoutWarnings, \* core / banking: number of #timeout-warning elements attached
    warnTimers,     \* core: due times of the pending auto-redirect timers of showTimeoutWarning
    redirect,       \* "page", or the timeout reason of the sign-in URL assigned to window.location.href
    tickDue,        \* the setInterval(checkSession, 1000) callback of this instant has not run yet
    timeoutWarningsShown, \* history: number of showTimeoutWarning calls
    warningsInCycle, \* history: number of showTimeoutWarning calls since the latest updateActivity
    sockets,        \* readyState of every WebSocket created by NotificationWebSocket, in order
    ws,             \* this.ws: index into sockets (0: null)
    reconnectAttempts, \* this.reconnectAttempts
    isConnecting,   \* this.isConnecting
    heartbeatInterval, \* this.heartbeatInterval: id of a heartbeat timer (0: null)
    heartbeatTimers, \* the live setInterval timers of startHeartbeat: id and next due time
    reconnectTimers, \* the pending setTimeout(connect) timers: due time and delay
    reconnectButtons, \* number of #ws-reconnect-btn elements attached
    pings,          \* history: number of ping frames sent
    delaysSinceReset, \* history: delays of the reconnects scheduled since reconnectAttempts was last 0
    reconnectClicks, \* history: number of clicks on the reconnect button
    badgePresent,   \* the page has an #adminNotifBadge element
    badgeText,      \* textContent of #adminNotifBadge, as a sequence of characters
    badgeShown,     \* #adminNotifBadge has style.display 'block' (FALSE: 'none')
    menuOpen,       \* #adminNotifMenu exists and has the class 'show'
    notifList,      \* #adminNotifList: "initial", "empty" or "items"
    toastsShown,    \* history: number of toasts appended by showNotificationToast
    framesReceived, \* history: number of message events handled
    lastFrame,      \* history: type of the latest message event ("none": none yet)
    sentFrames,     \* history: number of frames sent by the outbound actions
    callsMade       \* history: number of calls of the outbound actions

queueVars == <<tokenSources, lastLogTime, logQueue, isLogging, timers, inflight,
               enqueued, pushedAt, sent, lastSentAt, settled, lastSettledAt, lastTick,
               violationCount,
               suspiciousActivityLevel>>
deliveryVars == <<coreInflight, delivered>>
blurVars == <<isBlurred, overlays>>
idleState == <<lastActivity, sessionStart, warningShown, warnTimers, redirect, tickDue,
               timeoutWarningsShown, warningsInCycle>>
idleVars == <<timeoutWarnings, idleState>>
sessionVars == <<violations, body, blockRenders, violationWarning, warningsShown,
                 warningTimers, reports, pending, deliveryVars, blurVars, idleVars>>
frameVars == <<badgePresent, badgeText, badgeShown, menuOpen, notifList, toastsShown,
               framesReceived, lastFrame, sentFrames, callsMade>>
socketVars == <<sockets, ws, reconnectAttempts, isConnecting, heartbeatInterval,
                heartbeatTimers, reconnectTimers, reconnectButtons, pings, delaysSinceReset,
                reconnectClicks, frameVars>>
keyVars == <<keyEvent, prevented, calls, presses, pressBase, tokenFound>>
devVars == <<sizeDiff, devtoolsOpen, pollDue, pollsAbove, episodeReports>>
advVars == <<docHidden, winFocused, advOverlay, advOverlaysMade, advRemoveTimers,
             advTempTimers, focusLossCount, lastFocusLoss, advEvents>>
advOwnVars == <<advOverlay, advOverlaysMade, advRemoveTimers, advTempTimers, focusLossCount,
                lastFocusLoss, advEvents>>
protVars == <<initialized, blurActive, blurOverlays, blurShown, tawkActive, blackScreen,
              blackScreensMade, protTimers, lastViolationTime, profViolationCount,
              profRequests, lastBlocked, protEvents>>
auxVars == <<devVars, advVars, protVars>>
urlVars == <<location, payloads, firedAt>>
vars == <<loaded, now, queueVars, sessionVars, socketVars, keyVars, urlVars, auxVars>>

\* ------------------------------------------------------------------------
\* Anti-forgery token lookup
\* ------------------------------------------------------------------------
\* "" stands for an absent source (querySelector(...)?.content undefined,
\* no csrftoken= cookie); both are falsy in the `if (!token)` tests.
getCSRFToken(src) ==
    IF src.meta # "" THEN src.meta
    ELSE IF src.form # "" THEN src.form
    ELSE src.cookie

NoToken == [meta |-> "", form |-> "", cookie |-> ""]

\* ------------------------------------------------------------------------
\* Helpers
\* ------------------------------------------------------------------------
\* `violations++` / `violationCount++`
Incremented_ByTwo(count) == count + 2
Incremented(count) == count + 1

RemoveAt(seq, i) == SubSeq(seq, 1, i - 1) \o SubSeq(seq, i + 1, Len(seq))

Ids(seq) == {seq[i].id : i \in 1..Len(seq)}

QueueInit ==
    /\ lastLogTime = 0
    /\ logQueue = [s \in QueueScripts |-> <<>>]
    /\ isLogging = [s \in QueueScripts |-> FALSE]
    /\ timers = [s \in QueueScripts |-> <<>>]
    /\ inflight = [s \in QueueScripts |-> <<>>]
    /\ enqueued = [s \in QueueScripts |-> <<>>]
    /\ pushedAt = [s \in QueueScripts |-> [first |-> 0, last |-> 0]]
    /\ sent = [s \in QueueScripts |-> <<>>]
    /\ lastSentAt = [s \in QueueScripts |-> 0]
    /\ settled = [s \in QueueScripts |-> <<>>]
    /\ lastSettledAt = [s \in QueueScripts |-> 0]
    /\ lastTick = [s \in QueueScripts |-> [id |-> 0, outcome |-> "none"]]
    /\ violationCount = 0
    /\ suspiciousActivityLevel = 0

SessionInit ==
    /\ violations = [s \in SessionScripts |-> 0]
    /\ body = [s \in SessionScripts |-> "page"]
    /\ blockRenders = [s \in SessionScripts |-> 0]
    /\ violationWarning = 0
    /\ warningsShown = 0
    /\ warningTimers = {}
    /\ reports = [s \in SessionScripts |-> <<>>]
    /\ pending = <<>>
    /\ coreInflight = [e \in CoreEvents |-> 0]
    /\ delivered = [s \in SessionScripts |-> 0]
    /\ isBlurred = [s \in SessionScripts |-> FALSE]
    /\ overlays = [s \in SessionScripts |-> 0]
    /\ lastActivity = StartTime
    /\ sessionStart = StartTime
    /\ warningShown = FALSE
    /\ timeoutWarnings = 0
    /\ warnTimers = {}
    /\ redirect = "page"
    /\ tickDue = FALSE
    /\ timeoutWarningsShown = 0
    /\ warningsInCycle = 0

\* the notification widgets of the page before any frame arrived
FrameInit ==
    /\ badgePresent = TRUE
    /\ badgeText = <<>>
    /\ badgeShown = FALSE
    /\ menuOpen = FALSE
    /\ notifList = "initial"
    /\ toastsShown = 0
    /\ framesReceived = 0
    /\ lastFrame = "none"
    /\ sentFrames = 0
    /\ callsMade = 0

\* a page without a NotificationWebSocket object
\* the page is at its first URL and nothing has been reported
UrlInit ==
    /\ location = 0
    /\ payloads = [s \in QueueScripts |-> <<>>]
    /\ firedAt = [s \in QueueScripts |-> <<>>]

\* the scripts that register keydown / keyup listeners on the document
KeyScripts == {"strict", "warning_only", "banking", "ucp", "screenshot", "ultimate"}

NoKeyEvent ==
    [phase |-> "none", key |-> "none", ctrl |-> FALSE, shift |-> FALSE, meta |-> FALSE,
     alt |-> FALSE, focus |-> "content"]

\* the scripts whose token lookup is followed: getCSRFToken of the
\* warning-only, strict and ucp scripts, getCsrfToken of the banking script,
\* logToServer of the advanced screenshot detection script
TokenScripts == {"warning_only", "strict", "ucp", "banking", "advanced"}

\* no key has been pressed and no token looked up yet
KeysInit ==
    /\ tokenFound = [s \in TokenScripts |-> "unread"]
    /\ keyEvent = NoKeyEvent
    /\ prevented = [s \in KeyScripts |-> FALSE]
    /\ calls = [s \in KeyScripts |-> <<>>]
    /\ presses = 0
    /\ pressBase = 0

\* the scripts with the window-size heuristic for open developer tools
DevScripts == {"strict", "ultimate", "screenshot", "banking"}

\* `const threshold = 160`
WindowSizeThreshold == 160

\* the period of setInterval(detectDevTools, ...)
PollInterval(s) == IF s \in {"strict", "ultimate"} THEN 1000 ELSE 500

\* the flags are false and the intervals registered as the scripts load
DevStateInit ==
    /\ devtoolsOpen = [s \in DevScripts |-> FALSE]
    /\ pollDue = [s \in DevScripts |-> StartTime + PollInterval(s)]
    /\ pollsAbove = [s \in DevScripts |-> 0]
    /\ episodeReports = [s \in DevScripts |-> 0]

\* a window without docked tools
DevInit ==
    /\ sizeDiff = [w |-> 0, h |-> 0]
    /\ DevStateInit

\* the advanced screenshot detection script has loaded in a visible,
\* focused window
AdvInit ==
    /\ docHidden = FALSE
    /\ winFocused = TRUE
    /\ advOverlay = 0
    /\ advOverlaysMade = 0
    /\ advRemoveTimers = {}
    /\ advTempTimers = {}
    /\ focusLossCount = 0
    /\ lastFocusLoss = 0
    /\ advEvents = 0

\* the scripts with the blur overlay on focus loss and the pageshow handler
ProtScripts == {"ucp", "professional"}

NoBlocked == [kind |-> "none", blocked |-> FALSE, reports |-> 0]

\* initialize() has run once
ProtInit ==
    /\ initialized = [s \in ProtScripts |-> 1]
    /\ blurActive = [s \in ProtScripts |-> FALSE]
    /\ blurOverlays = [s \in ProtScripts |-> 0]
    /\ blurShown = [s \in ProtScripts |-> 0]
    /\ tawkActive = FALSE
    /\ blackScreen = 0
    /\ blackScreensMade = 0
    /\ protTimers = [s \in ProtScripts |-> EmptyBag]
    /\ lastViolationTime = 0
    /\ profViolationCount = 0
    /\ profRequests = 0
    /\ lastBlocked = [s \in ProtScripts |-> NoBlocked]
    /\ protEvents = 0

AuxInit == DevInit /\ AdvInit /\ ProtInit

SocketAbsent ==
    /\ FrameInit
    /\ sockets = <<>>
    /\ ws = 0
    /\ reconnectAttempts = 0
    /\ isConnecting = FALSE
    /\ heartbeatInterval = 0
    /\ heartbeatTimers = {}
    /\ reconnectTimers = {}
    /\ reconnectButtons = 0
    /\ pings = 0
    /\ delaysSinceReset = <<>>
    /\ reconnectClicks = 0

\* ------------------------------------------------------------------------
\* Drain step of the queued reporters
\* ------------------------------------------------------------------------
\* `window.lastLogTime && (now - window.lastLogTime) < 2000`
InDebounceWindow_Inverted(last, t) == last # 0 /\ (t - last) > DEBOUNCE_MS
InDebounceWindow(last, t) == last # 0 /\ (t - last) < DEBOUNCE_MS

\* `const item = logQueue.shift()`: the head, and what stays in the queue
Shift_Pop(q) == [item |-> q[Len(q)], rest |-> SubSeq(q, 1, Len(q) - 1)]
Shift_Peek(q) == [item |-> Head(q), rest |-> q]
Shift(q) == [item |-> Head(q), rest |-> Tail(q)]

\* `if (!isLogging) processLogQueue()` of logActivity
MustStartDrain_Always(s) == TRUE
MustStartDrain(s) == ~isLogging[s]

\* `.finally(() => setTimeout(processLogQueue, 100))`: the timers after a
\* fetch settled with the given outcome
AfterSettle_OnSuccessOnly(tm, outcome) ==
    IF outcome = "ok" THEN Append(tm, now + DRAIN_DELAY_MS) ELSE tm
AfterSettle(tm, outcome) == Append(tm, now + DRAIN_DELAY_MS)

\* One call of processLogQueue / processQueue by script s, where q is
\* logQueue and tm the pending timers at the time of the call.
\* debounce: the script has the window.lastLogTime test.
DrainStep(s, q, tm, debounce) ==
    IF Len(q) = 0
    THEN /\ isLogging' = [isLogging EXCEPT ![s] = FALSE]
         /\ logQueue' = [logQueue EXCEPT ![s] = q]
         /\ timers' = [timers EXCEPT ![s] = tm]
         /\ lastTick' = [lastTick EXCEPT ![s] = [id |-> 0, outcome |-> "empty"]]
         /\ UNCHANGED <<lastLogTime, inflight, sent, lastSentAt>>
    ELSE LET item == Shift(q).item IN
         /\ isLogging' = [isLogging EXCEPT ![s] = TRUE]
         /\ logQueue' = [logQueue EXCEPT ![s] = Shift(q).rest]
         /\ IF debounce /\ InDebounceWindow(lastLogTime, now)
            THEN /\ timers' = [timers EXCEPT ![s] = Append(tm, now + DRAIN_DELAY_MS)]
                 /\ lastTick' = [lastTick EXCEPT ![s] = [id |-> item.id, outcome |-> "debounce"]]
                 /\ UNCHANGED <<lastLogTime, inflight, sent, lastSentAt>>
            ELSE /\ lastLogTime' = IF debounce THEN now ELSE lastLogTime
                 /\ IF getCSRFToken(tokenSources) = ""
                    THEN /\ timers' = [timers EXCEPT ![s] = Append(tm, now + DRAIN_DELAY_MS)]
                         /\ lastTick' = [lastTick EXCEPT ![s] = [id |-> item.id, outcome |-> "notoken"]]
                         /\ UNCHANGED <<inflight, sent, lastSentAt>>
                    ELSE /\ timers' = [timers EXCEPT ![s] = tm]
                         /\ inflight' = [inflight EXCEPT ![s] = Append(@, item)]
                         /\ sent' = [sent EXCEPT ![s] = Append(@, item.id)]
                         /\ lastSentAt' = [lastSentAt EXCEPT ![s] = now]
                         /\ lastTick' = [lastTick EXCEPT ![s] = [id |-> item.id, outcome |-> "sent"]]

\* warning-only script
processLogQueue(q, tm) == DrainStep("warning_only", q, tm, TRUE)

\* strict script
processQueue_OwnClock(q, tm) == DrainStep("strict", q, tm, FALSE)
processQueue(q, tm) == DrainStep("strict", q, tm, TRUE)

\* ultimate-content-protection script: no debounce test, lastLogTime untouched
ucpProcessLogQueue(q, tm) == DrainStep("ucp", q, tm, FALSE)

Drain(s, q, tm) ==
    CASE s = "warning_only" -> processLogQueue(q, tm)
      [] s = "strict"       -> processQueue(q, tm)
      [] s = "ucp"          -> ucpProcessLogQueue(q, tm)

\* `page_url: window.location.href` of the payload
PageUrl(s, item) == location

\* the payload that a drain step of s hands to fetch(), if it sends one
PayloadSent(s) ==
    payloads' =
        IF Len(sent'[s]) > Len(sent[s])
        THEN LET item == inflight'[s][Len(inflight'[s])]
             IN [payloads EXCEPT ![s] =
                    Append(@, [id |-> item.id, timestamp |-> item.timestamp,
                               page_url |-> PageUrl(s, item)])]
        ELSE payloads

\* Number of records pushed so far by all the scripts of the page.
TotalEnqueued ==
    Len(enqueued["warning_only"]) + Len(enqueued["strict"]) + Len(enqueued["ucp"])

\* The record pushed by the next logActivity / logViolation call of s.
NewRecord(s, type) ==
    [id |-> Len(enqueued[s]) + 1, type |-> type, timestamp |-> now]

\* logActivity(type, description) of the warning-only and strict scripts,
\* logViolation(type, description) of the ucp script.
logActivityCall(s, type) ==
    /\ s \in loaded \cap QueueScripts
    /\ TotalEnqueued < MaxEnqueue
    /\ LET rec == NewRecord(s, type)
           q == Append(logQueue[s], rec)
       IN /\ enqueued' = [enqueued EXCEPT ![s] = Append(@, [id |-> rec.id, type |-> type])]
          /\ pushedAt' = [pushedAt EXCEPT ![s] =
                [first |-> IF enqueued[s] = <<>> THEN now ELSE @.first, last |-> now]]
          /\ IF s = "ucp"
             THEN /\ violationCount' = Incremented(violationCount)
                  /\ suspiciousActivityLevel' = suspiciousActivityLevel + 1
             ELSE UNCHANGED <<violationCount, suspiciousActivityLevel>>
          /\ IF MustStartDrain(s)
             THEN Drain(s, q, timers[s])
             ELSE /\ logQueue' = [logQueue EXCEPT ![s] = q]
                  /\ UNCHANGED <<isLogging, timers, lastLogTime, inflight, sent, lastSentAt, lastTick>>
    /\ firedAt' = [firedAt EXCEPT ![s] = Append(@, [url |-> location, time |-> now])]
    /\ PayloadSent(s)
    /\ UNCHANGED <<keyVars, location, loaded, now, tokenSources, settled, lastSettledAt, sessionVars, socketVars>>

\* logActivity / logViolation called by a listener
logActivity(s, type) == logActivityCall(s, type) /\ UNCHANGED auxVars

\* The callback of setTimeout(processLogQueue, 100) runs.
TimerFire(s) ==
    /\ s \in loaded \cap QueueScripts
    /\ timers[s] # <<>>
    /\ Head(timers[s]) <= now
    /\ Drain(s, logQueue[s], Tail(timers[s]))
    /\ PayloadSent(s)
    /\ UNCHANGED <<auxVars, keyVars, location, firedAt, loaded, now, tokenSources, enqueued, pushedAt, settled, lastSettledAt,
                   violationCount, suspiciousActivityLevel, sessionVars, socketVars>>

\* A fetch() settles: .then / .catch swallow the outcome, .finally
\* schedules the next drain step.
FetchSettle(s, i, outcome) ==
    /\ s \in loaded \cap QueueScripts
    /\ i \in 1..Len(inflight[s])
    /\ inflight' = [inflight EXCEPT ![s] = RemoveAt(@, i)]
    /\ settled' = [settled EXCEPT ![s] =
                        Append(@, [id |-> inflight[s][i].id, outcome |-> outcome])]
    /\ lastSettledAt' = [lastSettledAt EXCEPT ![s] = now]
    /\ timers' = [timers EXCEPT ![s] = AfterSettle(@, outcome)]
    /\ UNCHANGED <<auxVars, keyVars, urlVars, loaded, now, tokenSources, lastLogTime, logQueue, isLogging, enqueued,
                   pushedAt, sent, lastSentAt, lastTick, violationCount,
                   suspiciousActivityLevel, sessionVars, socketVars>>

\* The clock advances between two handlers.
AdvanceTime(d) ==
    /\ now + d \in ClockValues
    /\ now' = now + d
    /\ UNCHANGED <<auxVars, keyVars, urlVars, loaded, queueVars, sessionVars, socketVars>>

QueuePages == {{"warning_only"}, {"strict"}, {"ucp"}}

InitQueue ==
    /\ loaded \in QueuePages
    /\ now = StartTime
    /\ tokenSources \in {NoToken, [NoToken EXCEPT !.cookie = "cookie-token"]}
    /\ QueueInit
    /\ SessionInit
    /\ SocketAbsent
    /\ KeysInit
    /\ AuxInit
    /\ UrlInit

NextQueue ==
    \/ \E s \in QueueScripts : \E t \in ViolationTypes(s) : logActivity(s, t)
    \/ \E s \in QueueScripts : TimerFire(s)
    \/ \E s \in QueueScripts : \E i \in 1..MaxEnqueue : \E o \in FetchOutcomes : FetchSettle(s, i, o)
    \/ \E d \in TimeSteps : AdvanceTime(d)

SpecQueue == InitQueue /\ [][NextQueue]_vars

\* The URL of the document changes without a page load (a fragment link,
\* history.pushState): the scripts and their queues stay.
Navigate ==
    /\ location < MaxNavigations
    /\ location' = location + 1
    /\ UNCHANGED <<auxVars, loaded, now, queueVars, sessionVars, socketVars, keyVars, payloads, firedAt>>

\* The queued reporters on a page whose URL can change.
NextPayload ==
    \/ NextQueue
    \/ Navigate

SpecPayload == InitQueue /\ [][NextPayload]_vars

\* The pending drain timers of the loaded scripts.
DrainTimers == UNION {{timers[s][k] : k \in 1..Len(timers[s])} : s \in loaded \cap QueueScripts}

\* Time passes up to the due time of the earliest pending
\* setTimeout(processLogQueue, 100): the browser runs a timer once it is due.
DrainTimePasses ==
    /\ DrainTimers # {}
    /\ \A t \in DrainTimers : t > now
    /\ now' = CHOOSE t \in DrainTimers : \A u \in DrainTimers : t <= u
    /\ UNCHANGED <<auxVars, keyVars, urlVars, loaded, queueVars, sessionVars, socketVars>>

\* Nothing happens for the length of a debounce window while every reporter
\* of the page is at rest.
DrainRest ==
    /\ \A s \in loaded \cap QueueScripts :
          logQueue[s] = <<>> /\ ~isLogging[s] /\ timers[s] = <<>> /\ inflight[s] = <<>>
    /\ now < StartTime + MaxDrainRests * DEBOUNCE_MS
    /\ now' = now + DEBOUNCE_MS
    /\ UNCHANGED <<auxVars, keyVars, urlVars, loaded, queueVars, sessionVars, socketVars>>

\* The queued reporters with the scheduling of the browser: a timer that
\* is due runs, the clock reaches the due time of a pending timer, and every
\* fetch() settles (the proviso of the termination property).
NextDrain ==
    \/ \E s \in QueueScripts : \E t \in ViolationTypes(s) : logActivity(s, t)
    \/ \E s \in QueueScripts : TimerFire(s)
    \/ \E s \in QueueScripts : \E i \in 1..MaxEnqueue : \E o \in FetchOutcomes : FetchSettle(s, i, o)
    \/ DrainTimePasses
    \/ DrainRest

SpecDrain ==
    /\ InitQueue
    /\ [][NextDrain]_vars
    /\ \A s \in QueueScripts : WF_vars(TimerFire(s))
    /\ \A s \in QueueScripts :
          WF_vars(\E i \in 1..MaxEnqueue : \E o \in FetchOutcomes : FetchSettle(s, i, o))
    /\ WF_vars(DrainTimePasses)

\* A page that includes both the warning-only and the strict script: two
\* queues and two drain loops, one window.lastLogTime,
\* with the timers of the drain loops run when they are due.
InitShared ==
    /\ loaded = DebouncedScripts
    /\ now = StartTime
    /\ tokenSources \in {NoToken, [NoToken EXCEPT !.cookie = "cookie-token"]}
    /\ QueueInit
    /\ SessionInit
    /\ SocketAbsent
    /\ KeysInit
    /\ AuxInit
    /\ UrlInit

SpecShared == InitShared /\ [][NextDrain]_vars

\* ------------------------------------------------------------------------
\* Properties of the queued reporters
\* ------------------------------------------------------------------------
TokenAvailable == getCSRFToken(tokenSources) # ""

\* The drain loop of s is at rest.
Idle(s) ==
    /\ logQueue[s] = <<>>
    /\ ~isLogging[s]
    /\ timers[s] = <<>>
    /\ inflight[s] = <<>>

\* Every record of s so far was pushed at the instant of the first one,
\* hence before any timer or continuation of the drain loop ran.
SingleTick(s) ==
    /\ Len(enqueued[s]) >= 1
    /\ pushedAt[s].last = pushedAt[s].first

\* Every request of s got a successful answer.
NetworkAnswered(s) == \A k \in 1..Len(settled[s]) : settled[s][k].outcome = "ok"

\* C1: in the warning-only and the strict script, N records enqueued in a
\* single tick give exactly N deliveries when a token is available and the
\* network answers: once the drain loop is at rest again, as many requests
\* were sent as records were enqueued.
C1_BurstFullyDelivered ==
    \A s \in DebouncedScripts :
        (Idle(s) /\ SingleTick(s) /\ TokenAvailable /\ NetworkAnswered(s))
            => Len(sent[s]) = Len(enqueued[s])

\* C2: a record taken by a drain step that finds itself inside the debounce
\* window is not discarded: until the next drain step it is still the head
\* of the queue.
C2_DeferredRecordKept ==
    \A s \in DebouncedScripts :
        lastTick[s].outcome = "debounce"
            => /\ logQueue[s] # <<>>
               /\ Head(logQueue[s]).id = lastTick[s].id

\* C3: a drain step that finds no anti-forgery token issues no request and
\* leaves the record at the head of the queue for the next drain step.
C3_NoTokenRecordKept ==
    \A s \in QueueScripts :
        lastTick[s].outcome = "notoken"
            => /\ \A k \in 1..Len(sent[s]) : sent[s][k] # lastTick[s].id
               /\ logQueue[s] # <<>>
               /\ Head(logQueue[s]).id = lastTick[s].id

\* The step issues a request of script s.
SendStep(s) == Len(sent'[s]) = Len(sent[s]) + 1

\* A request of s that is not its first one is issued at least gap
\* milliseconds after the previous one.
SendsSpaced(s, gap) ==
    (SendStep(s) /\ sent[s] # <<>>) => now - lastSentAt[s] >= gap

C5_FifoDelivery ==
    \A s \in QueueScripts :
        \A j, k \in 1..Len(sent[s]) :
            sent[s][j] < sent[s][k] => j < k

C5_Witness ==
    \E s \in QueueScripts : Len(sent[s]) >= 3

\* C6: one drain loop per queue: at most one of {pending drain timer,
\* request in flight} exists, and isLogging is true exactly when one does.
C6_SingleDrainLoop ==
    \A s \in QueueScripts :
        /\ Len(timers[s]) + Len(inflight[s]) <= 1
        /\ isLogging[s] <=> (Len(timers[s]) + Len(inflight[s]) = 1)

\* logActivity was called while a request was in flight, and again while a
\* timer is pending.
C6_Witness ==
    \E s \in QueueScripts :
        /\ Len(timers[s]) = 1
        /\ Len(logQueue[s]) >= 1
        /\ Len(sent[s]) >= 1
        /\ isLogging[s]

\* The step settles a request of s with a failure.
FailureStep(s) ==
    /\ Len(settled'[s]) = Len(settled[s]) + 1
    /\ settled'[s][Len(settled'[s])].outcome # "ok"

\* The step is a drain step of s that finds a record in the queue.
TakesRecord(s) ==
    /\ lastTick'[s] # lastTick[s] \/ logQueue'[s] # logQueue[s]
    /\ Len(settled'[s]) = Len(settled[s])
    /\ Len(enqueued'[s]) = Len(enqueued[s])
    /\ logQueue[s] # <<>>

C8_AtMostOnce ==
    \A s \in QueueScripts : Cardinality({sent[s][k] : k \in 1..Len(sent[s])}) = Len(sent[s])

\* two requests were sent although one failed and one record was deferred
C8_Witness ==
    \E s \in QueueScripts :
        /\ Len(sent[s]) >= 2
        /\ \E k \in 1..Len(settled[s]) : settled[s][k].outcome # "ok"
        /\ Len(enqueued[s]) > Len(sent[s])

IsRightClick(type) == type \in {"right_click_attempt", "right_click_blocked", "right_click"}
IsCopyAttempt(type) == type \in {"copy_blocked", "copy_attempt"}

\* The records of s are a right-click and then a copy attempt that
\* followed within 500 ms.
RightClickThenCopy(s) ==
    /\ Len(enqueued[s]) = 2
    /\ IsRightClick(enqueued[s][1].type)
    /\ IsCopyAttempt(enqueued[s][2].type)
    /\ pushedAt[s].last - pushedAt[s].first <= 500

\* C9: RightClick then CopyAttempt within 500 ms: both are delivered, and
\* the second request is sent at least 2000 ms after the first request
\* completed.
C9_SecondAfterCompletion ==
    /\ [](\A s \in DebouncedScripts :
            (RightClickThenCopy(s) /\ TokenAvailable /\ NetworkAnswered(s) /\ Idle(s))
                => sent[s] = <<1, 2>>)
    /\ [][\A s \in DebouncedScripts :
            (RightClickThenCopy(s) /\ TokenAvailable /\ NetworkAnswered(s)
                /\ SendStep(s) /\ sent[s] = <<1>> /\ settled[s] # <<>>)
                => now - lastSettledAt[s] >= DEBOUNCE_MS]_vars

\* ------------------------------------------------------------------------
\* Violation counters of the core and the banking script
\* ------------------------------------------------------------------------
MaxViolationsOf(s) == IF s = "core" THEN CoreMaxViolations ELSE BankingMaxViolations

\* `state.violations >= config.maxViolations`
ReachedMax_Exceeded(count, max) == count > max
ReachedMax(count, max) == count >= max

\* `else if (state.violations >= 3)`
ShouldWarn_AtThresholdOnly(count) == count = CoreWarnThreshold
ShouldWarn(count) == count >= CoreWarnThreshold

\* incrementViolation(type) of the core script, with showSecurityBlock and
\* showViolationWarning.
incrementViolationCall(type) ==
    /\ "core" \in loaded
    /\ violations["core"] < MaxViolationEvents
    /\ LET count == Incremented(violations["core"])
           logged == Append(reports["core"],
                        [event |-> "security_violation", type |-> type, count |-> count])
       IN /\ violations' = [violations EXCEPT !["core"] = count]
          /\ IF ReachedMax(count, CoreMaxViolations)
             THEN \* showSecurityBlock(): the page body is replaced
                  /\ reports' = [reports EXCEPT !["core"] =
                        Append(logged, [event |-> "session_terminated",
                                        type |-> "max_violations", count |-> count])]
                  /\ coreInflight' = [coreInflight EXCEPT !["security_violation"] = @ + 1,
                                                          !["session_terminated"] = @ + 1]
                  /\ body' = [body EXCEPT !["core"] = "terminated"]
                  /\ blockRenders' = [blockRenders EXCEPT !["core"] = @ + 1]
                  /\ violationWarning' = 0
                  /\ overlays' = [overlays EXCEPT !["core"] = 0]
                  /\ timeoutWarnings' = 0
                  /\ UNCHANGED <<warningsShown, warningTimers>>
             ELSE IF ShouldWarn(count)
             THEN \* showViolationWarning(count): replaces the banner, removal after 5 s
                  /\ reports' = [reports EXCEPT !["core"] = logged]
                  /\ coreInflight' = [coreInflight EXCEPT !["security_violation"] = @ + 1]
                  /\ violationWarning' = warningsShown + 1
                  /\ warningsShown' = warningsShown + 1
                  /\ warningTimers' = warningTimers \cup {warningsShown + 1}
                  /\ UNCHANGED <<body, blockRenders, overlays, timeoutWarnings>>
             ELSE /\ reports' = [reports EXCEPT !["core"] = logged]
                  /\ coreInflight' = [coreInflight EXCEPT !["security_violation"] = @ + 1]
                  /\ UNCHANGED <<body, blockRenders, violationWarning, warningsShown,
                                 warningTimers, overlays, timeoutWarnings>>
    /\ UNCHANGED <<urlVars, loaded, now, queueVars, socketVars, pending, delivered, isBlurred, idleState>>

\* incrementViolation(type) called by a detector other than a key listener
incrementViolation(type) == incrementViolationCall(type) /\ UNCHANGED <<auxVars, keyVars>>

\* The fetch() of logSecurityEvent settles: the core script only logs a
\* failure to the console.
coreLogSettle(event, outcome) ==
    /\ "core" \in loaded
    /\ coreInflight[event] > 0
    /\ coreInflight' = [coreInflight EXCEPT ![event] = @ - 1]
    /\ delivered' = [delivered EXCEPT !["core"] =
            IF event = "security_violation" /\ outcome = "ok" THEN @ + 1 ELSE @]
    /\ UNCHANGED <<auxVars, keyVars, urlVars, loaded, now, queueVars, socketVars, idleVars, violations, body, blockRenders, violationWarning,
                   warningsShown, warningTimers, reports, pending, blurVars>>

\* `setTimeout(() => warning.remove(), 5000)` of showViolationWarning fires.
WarningTimerFire(id) ==
    /\ "core" \in loaded
    /\ id \in warningTimers
    /\ warningTimers' = warningTimers \ {id}
    /\ violationWarning' = IF violationWarning = id THEN 0 ELSE violationWarning
    /\ UNCHANGED <<auxVars, keyVars, urlVars, loaded, now, queueVars, socketVars, idleVars, violations, body, blockRenders, warningsShown,
                   reports, pending, deliveryVars, blurVars>>

\* how a violation report of the banking script can settle: the answer has
\* a truthy success field, the answer has none, or the request or its
\* parsing fails
BankingOutcomes == {"success", "no_success", "error"}

\* logViolation(violationType, description) of the banking script: the
\* request is issued, the count changes only when the answer arrives.
bankingLogViolation(type) ==
    /\ "banking" \in loaded
    /\ Len(reports["banking"]) < MaxBankingEvents
    /\ LET data == [id |-> Len(reports["banking"]) + 1, type |-> type, timestamp |-> now]
       IN /\ reports' = [reports EXCEPT !["banking"] = Append(@, data)]
          /\ pending' = Append(pending, data)
    /\ UNCHANGED <<auxVars, keyVars, urlVars, loaded, now, queueVars, socketVars, idleVars, violations, body, blockRenders, violationWarning,
                   warningsShown, warningTimers, deliveryVars, blurVars>>

\* `if (data.success)`
CountsOnAnswer_AnyAnswer(outcome) == outcome # "error"
CountsOnAnswer(outcome) == outcome = "success"

\* The continuations of the request of logViolation, with terminateSession.
bankingLogSettle(i, outcome) ==
    /\ "banking" \in loaded
    /\ i \in 1..Len(pending)
    /\ pending' = RemoveAt(pending, i)
    /\ delivered' = [delivered EXCEPT !["banking"] =
            IF outcome = "success" THEN @ + 1 ELSE @]
    /\ IF CountsOnAnswer(outcome)
       THEN LET count == Incremented(violations["banking"]) IN
            /\ violations' = [violations EXCEPT !["banking"] = count]
            /\ IF ReachedMax(count, BankingMaxViolations)
               THEN \* terminateSession(): the page body is replaced
                    /\ body' = [body EXCEPT !["banking"] = "terminated"]
                    /\ blockRenders' = [blockRenders EXCEPT !["banking"] = @ + 1]
                    /\ overlays' = [overlays EXCEPT !["banking"] = 0]
                    /\ timeoutWarnings' = 0
               ELSE UNCHANGED <<body, blockRenders, overlays, timeoutWarnings>>
       ELSE UNCHANGED <<violations, body, blockRenders, overlays, timeoutWarnings>>
    /\ UNCHANGED <<auxVars, keyVars, urlVars, loaded, now, queueVars, socketVars, violationWarning, warningsShown, warningTimers,
                   reports, coreInflight, isBlurred, idleState>>

\* blurScreen(reason) of the core script
blurScreen(reason) ==
    /\ "core" \in loaded
    /\ ~isBlurred["core"]
    /\ coreInflight["screen_blurred"] < MaxBlurEvents
    /\ isBlurred' = [isBlurred EXCEPT !["core"] = TRUE]
    /\ reports' = [reports EXCEPT !["core"] =
            Append(@, [event |-> "screen_blurred", type |-> reason, count |-> 0])]
    /\ coreInflight' = [coreInflight EXCEPT !["screen_blurred"] = @ + 1]
    /\ overlays' = [overlays EXCEPT !["core"] = @ + 1]
    /\ UNCHANGED <<auxVars, keyVars, urlVars, loaded, now, queueVars, socketVars, idleVars, violations, body, blockRenders, violationWarning,
                   warningsShown, warningTimers, pending, delivered>>

\* unblurScreen() of the core script
unblurScreen ==
    /\ "core" \in loaded
    /\ isBlurred' = [isBlurred EXCEPT !["core"] = FALSE]
    /\ overlays' = [overlays EXCEPT !["core"] = IF @ > 0 THEN @ - 1 ELSE 0]
    /\ UNCHANGED <<auxVars, keyVars, urlVars, loaded, now, queueVars, socketVars, idleVars, violations, body, blockRenders, violationWarning,
                   warningsShown, warningTimers, reports, pending, deliveryVars>>

\* blurScreen(reason) of the banking script, with its logViolation and
\* showBlurOverlay
bankingBlurScreen(reason) ==
    /\ "banking" \in loaded
    /\ ~isBlurred["banking"]
    /\ Len(reports["banking"]) < MaxBankingEvents
    /\ isBlurred' = [isBlurred EXCEPT !["banking"] = TRUE]
    /\ LET data == [id |-> Len(reports["banking"]) + 1, type |-> "screen_recording",
                    timestamp |-> now]
       IN /\ reports' = [reports EXCEPT !["banking"] = Append(@, data)]
          /\ pending' = Append(pending, data)
    /\ overlays' = [overlays EXCEPT !["banking"] = @ + 1]
    /\ UNCHANGED <<auxVars, keyVars, urlVars, loaded, now, queueVars, socketVars, idleVars, violations, body, blockRenders, violationWarning,
                   warningsShown, warningTimers, deliveryVars>>

SessionPages == {{"core"}, {"banking"}}

InitSession ==
    /\ loaded \in SessionPages
    /\ now = StartTime
    /\ tokenSources \in {NoToken, [NoToken EXCEPT !.cookie = "cookie-token"]}
    /\ QueueInit
    /\ SessionInit
    /\ SocketAbsent
    /\ KeysInit
    /\ AuxInit
    /\ UrlInit

NextSession ==
    \/ \E t \in ViolationTypes("core") : incrementViolation(t)
    \/ \E id \in 1..MaxViolationEvents : WarningTimerFire(id)
    \/ \E t \in ViolationTypes("banking") : bankingLogViolation(t)
    \/ \E i \in 1..MaxBankingEvents : \E o \in BankingOutcomes : bankingLogSettle(i, o)

SpecSession == InitSession /\ [][NextSession]_vars

\* The same pages with the answers of the core script's log requests.
NextDelivery ==
    \/ \E t \in ViolationTypes("core") :
          incrementViolation(t) /\ violations'["core"] <= MaxDeliveryEvents
    \/ \E e \in CoreEvents : \E o \in FetchOutcomes : coreLogSettle(e, o)
    \/ \E t \in ViolationTypes("banking") : bankingLogViolation(t)
    \/ \E i \in 1..MaxBankingEvents : \E o \in BankingOutcomes : bankingLogSettle(i, o)

SpecDelivery == InitSession /\ [][NextDelivery]_vars

\* The same pages with the detectors that blur the screen.
NextBlur ==
    \/ incrementViolation("copy_attempt")
    \/ \E r \in BlurReasons("core") : blurScreen(r)
    \/ unblurScreen
    \/ \E t \in ViolationTypes("banking") : bankingLogViolation(t)
    \/ \E r \in BlurReasons("banking") : bankingBlurScreen(r)
    \/ \E i \in 1..MaxBankingEvents : \E o \in BankingOutcomes : bankingLogSettle(i, o)

SpecBlur == InitSession /\ [][NextBlur]_vars

\* ------------------------------------------------------------------------
\* Idle and session timeouts of the core and the banking script
\* ------------------------------------------------------------------------
\* the instants at which the handlers of the timeout model run
IdleTimeSteps == {CHECK_INTERVAL_MS, MINUTE_MS}

IdleClockValues ==
    {StartTime + a * CHECK_INTERVAL_MS + b * MINUTE_MS :
        a \in 0..MaxIdleSeconds, b \in 0..MaxIdleMinutes}

\* the two timeout tests of checkSession, in the order of the code: "none"
\* when neither returns
TimeoutReason_SessionFirst(idleTime, sessionTime) ==
    IF sessionTime > sessionTimeout THEN "expired"
    ELSE IF idleTime > idleTimeout THEN "idle"
    ELSE "none"
TimeoutReason_IdleOnly(idleTime, sessionTime) ==
    IF idleTime > idleTimeout THEN "idle" ELSE "none"
TimeoutReason(idleTime, sessionTime) ==
    IF idleTime > idleTimeout THEN "idle"
    ELSE IF sessionTime > sessionTimeout THEN "expired"
    ELSE "none"

\* `idleTime > (idleTimeout - warningTime) && !state.warningShown`
MustWarn_EveryTick(idleTime, shown) == idleTime > idleTimeout - warningTime
MustWarn(idleTime, shown) == idleTime > idleTimeout - warningTime /\ ~shown

\* the instants after which a test of checkSession changes its answer
Thresholds ==
    {lastActivity + idleTimeout - warningTime, lastActivity + idleTimeout,
     sessionStart + sessionTimeout}

\* Time passes up to a later run of the setInterval(checkSession, 1000)
\* callback.  The callback runs every second: the runs that are skipped
\* here are those at which no test of checkSession holds and no timer is
\* due, so they change nothing.
IdleTimePasses(d) ==
    /\ redirect = "page"
    /\ ~tickDue
    /\ now + d \in IdleClockValues
    /\ \A th \in Thresholds : th >= now => now + d <= th + CHECK_INTERVAL_MS
    /\ \A t \in warnTimers : t > now /\ now + d <= t
    /\ now' = now + d
    /\ tickDue' = TRUE
    /\ UNCHANGED <<auxVars, keyVars, urlVars, loaded, queueVars, socketVars, violations, body, blockRenders,
                   violationWarning,
                   warningsShown, warningTimers, reports, pending, deliveryVars, blurVars,
                   timeoutWarnings, lastActivity, sessionStart, warningShown, warnTimers,
                   redirect, timeoutWarningsShown, warningsInCycle>>

\* updateActivity() of both scripts (mousedown, mousemove, keypress, scroll,
\* touchstart, click, and the page becoming visible again)
updateActivity(s) ==
    /\ s \in loaded
    /\ redirect = "page"
    /\ lastActivity' = now
    /\ warningShown' = FALSE
    /\ warningsInCycle' = 0
    /\ UNCHANGED <<auxVars, keyVars, urlVars, loaded, now, queueVars, socketVars, violations, body, blockRenders, violationWarning,
                   warningsShown, warningTimers, reports, pending, deliveryVars, blurVars,
                   timeoutWarnings, sessionStart, warnTimers, redirect, tickDue,
                   timeoutWarningsShown>>

\* checkSession() of both scripts, with showTimeoutWarning; the core script
\* also logs the timeout and arms the auto-redirect timer of the warning.
checkSession(s) ==
    /\ s \in loaded
    /\ redirect = "page"
    /\ tickDue
    /\ tickDue' = FALSE
    /\ LET idleTime == now - lastActivity
           sessionTime == now - sessionStart
           reason == TimeoutReason(idleTime, sessionTime)
       IN IF reason # "none"
          THEN /\ redirect' = reason
               /\ IF s = "core"
                  THEN /\ reports' = [reports EXCEPT !["core"] =
                              Append(@, [event |-> "session_timeout",
                                         type |-> IF reason = "idle" THEN "idle"
                                                  ELSE "max_duration",
                                         count |-> 0])]
                       /\ coreInflight' = [coreInflight EXCEPT !["session_timeout"] = @ + 1]
                  ELSE UNCHANGED <<reports, coreInflight>>
               /\ UNCHANGED <<warningShown, timeoutWarnings, warnTimers,
                              timeoutWarningsShown, warningsInCycle>>
          ELSE IF MustWarn(idleTime, warningShown)
          THEN /\ timeoutWarnings' = timeoutWarnings + 1
               /\ warnTimers' = IF s = "core" THEN warnTimers \cup {now + warningTime}
                                ELSE warnTimers
               /\ warningShown' = TRUE
               /\ timeoutWarningsShown' = timeoutWarningsShown + 1
               /\ warningsInCycle' = warningsInCycle + 1
               /\ UNCHANGED <<redirect, reports, coreInflight>>
          ELSE UNCHANGED <<redirect, reports, coreInflight, warningShown, timeoutWarnings,
                           warnTimers, timeoutWarningsShown, warningsInCycle>>
    /\ UNCHANGED <<auxVars, keyVars, urlVars, loaded, now, queueVars, socketVars, violations, body, blockRenders, violationWarning,
                   warningsShown, warningTimers, pending, delivered, blurVars,
                   lastActivity, sessionStart>>

\* The button of a timeout warning is clicked: the element is removed and
\* updateActivity() runs.
dismissTimeoutWarning(s) ==
    /\ s \in loaded
    /\ redirect = "page"
    /\ timeoutWarnings > 0
    /\ timeoutWarnings' = timeoutWarnings - 1
    /\ lastActivity' = now
    /\ warningShown' = FALSE
    /\ warningsInCycle' = 0
    /\ UNCHANGED <<auxVars, keyVars, urlVars, loaded, now, queueVars, socketVars, violations, body, blockRenders, violationWarning,
                   warningsShown, warningTimers, reports, pending, deliveryVars, blurVars,
                   sessionStart, warnTimers, redirect, tickDue, timeoutWarningsShown>>

\* The setTimeout(..., warningTime) of the core script's showTimeoutWarning
\* fires: redirect when a #timeout-warning element is still attached.
warnTimerFire(t) ==
    /\ "core" \in loaded
    /\ redirect = "page"
    /\ t \in warnTimers
    /\ t <= now
    /\ warnTimers' = warnTimers \ {t}
    /\ redirect' = IF timeoutWarnings > 0 THEN "idle" ELSE redirect
    /\ UNCHANGED <<auxVars, keyVars, urlVars, loaded, now, queueVars, socketVars, violations, body, blockRenders, violationWarning,
                   warningsShown, warningTimers, reports, pending, deliveryVars, blurVars,
                   timeoutWarnings, lastActivity, sessionStart, warningShown, tickDue,
                   timeoutWarningsShown, warningsInCycle>>

\* The violations of this specification happen as the page opens: the
\* timeout tests never read the count.
NextIdle ==
    \/ \E d \in IdleTimeSteps : IdleTimePasses(d)
    \/ \E s \in SessionScripts : updateActivity(s)
    \/ \E s \in SessionScripts : checkSession(s)
    \/ \E s \in SessionScripts : dismissTimeoutWarning(s)
    \/ \E t \in IdleClockValues : warnTimerFire(t)
    \/ /\ redirect = "page"
       /\ now = sessionStart
       /\ violations["core"] < MaxIdleViolations
       /\ incrementViolation("copy_attempt")
    \/ /\ redirect = "page"
       /\ now = sessionStart
       /\ Len(reports["banking"]) < MaxIdleViolations
       /\ bankingLogViolation("copy_attempt")
    \/ /\ redirect = "page"
       /\ now = sessionStart
       /\ bankingLogSettle(1, "success")

SpecIdle == InitSession /\ [][NextIdle]_vars

\* ------------------------------------------------------------------------
\* NotificationWebSocket (websocket-notifications.js)
\* ------------------------------------------------------------------------
ReadyStates == {"CONNECTING", "OPEN", "CLOSING", "CLOSED"}

SocketClockValues == {StartTime + k * reconnectDelay : k \in 0..MaxSocketTicks}

\* `this.reconnectAttempts < this.maxReconnectAttempts`
MayReconnect_Inclusive(attempts) == attempts <= maxReconnectAttempts
MayReconnect(attempts) == attempts < maxReconnectAttempts

\* `this.reconnectDelay * this.reconnectAttempts`
ReconnectDelayFor_Fixed(attempts) == reconnectDelay
ReconnectDelayFor(attempts) == reconnectDelay * attempts

\* clearInterval(this.heartbeatInterval) of stopHeartbeat
ClearInterval_Noop(timerSet, handle) == timerSet
ClearInterval(timerSet, handle) == {t \in timerSet : t.id # handle}

\* `this.ws && this.ws.readyState === WebSocket.OPEN`
IsOpen == ws # 0 /\ sockets[ws] = "OPEN"

\* connect() returns at its first test
ConnectReturnsEarly == isConnecting \/ IsOpen

\* connect(): the effect on this.isConnecting and this.ws
connect ==
    IF ConnectReturnsEarly
    THEN UNCHANGED <<isConnecting, sockets, ws>>
    ELSE /\ isConnecting' = TRUE
         /\ sockets' = Append(sockets, "CONNECTING")
         /\ ws' = Len(sockets) + 1

\* the state after `new NotificationWebSocket()`: the constructor has
\* called connect()
SocketInit ==
    /\ sockets = <<"CONNECTING">>
    /\ ws = 1
    /\ reconnectAttempts = 0
    /\ isConnecting = TRUE
    /\ heartbeatInterval = 0
    /\ heartbeatTimers = {}
    /\ reconnectTimers = {}
    /\ reconnectButtons = 0
    /\ pings = 0
    /\ delaysSinceReset = <<>>
    /\ reconnectClicks = 0

\* ws.onopen of socket i, with startHeartbeat
SocketOpen(i) ==
    /\ i \in 1..Len(sockets)
    /\ sockets[i] = "CONNECTING"
    /\ sockets' = [sockets EXCEPT ![i] = "OPEN"]
    /\ isConnecting' = FALSE
    /\ reconnectAttempts' = 0
    /\ heartbeatTimers' = heartbeatTimers \cup {[id |-> i, due |-> now + HEARTBEAT_MS]}
    /\ heartbeatInterval' = i
    /\ delaysSinceReset' = <<>>
    /\ UNCHANGED <<auxVars, keyVars, urlVars, loaded, now, queueVars, sessionVars, frameVars, ws, reconnectTimers,
                   reconnectButtons, pings, reconnectClicks>>

\* the closing handshake of socket i starts: readyState is CLOSING until
\* the close event
SocketClosing(i) ==
    /\ i \in 1..Len(sockets)
    /\ sockets[i] = "OPEN"
    /\ sockets' = [sockets EXCEPT ![i] = "CLOSING"]
    /\ UNCHANGED <<auxVars, keyVars, urlVars, loaded, now, queueVars, sessionVars, frameVars, ws, reconnectAttempts, isConnecting,
                   heartbeatInterval, heartbeatTimers, reconnectTimers, reconnectButtons,
                   pings, delaysSinceReset, reconnectClicks>>

\* ws.onclose of socket i (after ws.onerror when the connection failed),
\* with stopHeartbeat and showReconnectButton
SocketClose(i) ==
    /\ i \in 1..Len(sockets)
    /\ sockets[i] # "CLOSED"
    /\ sockets' = [sockets EXCEPT ![i] = "CLOSED"]
    /\ isConnecting' = FALSE
    /\ IF heartbeatInterval # 0
       THEN /\ heartbeatTimers' = ClearInterval(heartbeatTimers, heartbeatInterval)
            /\ heartbeatInterval' = 0
       ELSE UNCHANGED <<heartbeatTimers, heartbeatInterval>>
    /\ IF MayReconnect(reconnectAttempts)
       THEN LET delay == ReconnectDelayFor(reconnectAttempts + 1) IN
            /\ reconnectAttempts' = reconnectAttempts + 1
            /\ reconnectTimers' = reconnectTimers \cup {[due |-> now + delay, delay |-> delay]}
            /\ delaysSinceReset' = Append(delaysSinceReset, delay)
            /\ UNCHANGED reconnectButtons
       ELSE /\ reconnectButtons' = reconnectButtons + 1
            /\ UNCHANGED <<reconnectAttempts, reconnectTimers, delaysSinceReset>>
    /\ UNCHANGED <<auxVars, keyVars, urlVars, loaded, now, queueVars, sessionVars, frameVars, ws, pings, reconnectClicks>>

\* the callback of setTimeout(() => this.connect(), delay) runs
ReconnectTimerFire(t) ==
    /\ t \in reconnectTimers
    /\ t.due <= now
    /\ ConnectReturnsEarly \/ Len(sockets) < MaxSockets
    /\ reconnectTimers' = reconnectTimers \ {t}
    /\ connect
    /\ UNCHANGED <<auxVars, keyVars, urlVars, loaded, now, queueVars, sessionVars, frameVars, reconnectAttempts, heartbeatInterval,
                   heartbeatTimers, reconnectButtons, pings, delaysSinceReset,
                   reconnectClicks>>

\* the callback of the setInterval of startHeartbeat runs
HeartbeatFire(t) ==
    /\ t \in heartbeatTimers
    /\ t.due <= now
    /\ heartbeatTimers' = (heartbeatTimers \ {t}) \cup {[t EXCEPT !.due = @ + HEARTBEAT_MS]}
    /\ pings' = IF IsOpen THEN pings + 1 ELSE pings
    /\ UNCHANGED <<auxVars, keyVars, urlVars, loaded, now, queueVars, sessionVars, frameVars, sockets, ws, reconnectAttempts,
                   isConnecting, heartbeatInterval, reconnectTimers, reconnectButtons,
                   delaysSinceReset, reconnectClicks>>

\* `btn.remove()` of the click listener: the buttons left in the page
RemoveButton_Kept(buttons) == buttons
RemoveButton(buttons) == buttons - 1

\* the click listener of the reconnect button
ClickReconnect ==
    /\ reconnectButtons > 0
    /\ ConnectReturnsEarly \/ Len(sockets) < MaxSockets
    /\ reconnectAttempts' = 0
    /\ connect
    /\ reconnectButtons' = RemoveButton(reconnectButtons)
    /\ delaysSinceReset' = <<>>
    /\ reconnectClicks' = reconnectClicks + 1
    /\ UNCHANGED <<auxVars, keyVars, urlVars, loaded, now, queueVars, sessionVars, frameVars, heartbeatInterval, heartbeatTimers,
                   reconnectTimers, pings>>

\* Time passes; the timers that are due have run.
SocketTimePasses ==
    /\ now + reconnectDelay \in SocketClockValues
    /\ \A t \in reconnectTimers \cup heartbeatTimers : t.due > now
    /\ now' = now + reconnectDelay
    /\ UNCHANGED <<auxVars, keyVars, urlVars, loaded, queueVars, sessionVars, socketVars>>

InitSocket ==
    /\ loaded = {"notifications"}
    /\ now = StartTime
    /\ tokenSources = NoToken
    /\ QueueInit
    /\ SessionInit
    /\ SocketInit
    /\ KeysInit
    /\ AuxInit
    /\ UrlInit
    /\ FrameInit

NextSocket ==
    \/ \E i \in 1..MaxSockets : SocketOpen(i)
    \/ \E i \in 1..MaxSockets : SocketClosing(i)
    \/ \E i \in 1..MaxSockets : SocketClose(i)
    \/ \E t \in reconnectTimers : ReconnectTimerFire(t)
    \/ \E t \in heartbeatTimers : HeartbeatFire(t)
    \/ ClickReconnect
    \/ SocketTimePasses

SpecSocket == InitSocket /\ [][NextSocket]_vars

\* ------------------------------------------------------------------------
\* Frames of the notification socket: handleMessage and the outbound actions
\* ------------------------------------------------------------------------
DigitChars == <<"0", "1", "2", "3", "4", "5", "6", "7", "8", "9">>

IsDigit(c) == \E d \in 0..9 : DigitChars[d + 1] = c

DigitValue(c) == CHOOSE d \in 0..9 : DigitChars[d + 1] = c

\* the text of a number assigned to textContent
RECURSIVE Format(_)
Format(n) ==
    IF n < 10 THEN <<DigitChars[n + 1]>>
    ELSE Format(n \div 10) \o <<DigitChars[(n % 10) + 1]>>

\* the result of parseInt on a text without a leading digit
NaN == -1

RECURSIVE ParseDigits(_, _)
ParseDigits(t, acc) ==
    IF t = <<>> \/ ~IsDigit(Head(t)) THEN acc
    ELSE ParseDigits(Tail(t), acc * 10 + DigitValue(Head(t)))

\* parseInt(text): the value of the leading digits
parseInt(t) ==
    IF t = <<>> \/ ~IsDigit(Head(t)) THEN NaN ELSE ParseDigits(t, 0)

\* `parseInt(badge.textContent || '0')` of handleNewNotification
CurrentCount(text, shown) == parseInt(IF text = <<>> THEN <<"0">> ELSE text)

\* `currentCount + 1`
PlusOne(x) == IF x = NaN THEN NaN ELSE x + 1

\* updateUnreadBadge(count): the text and the display of the badge
updateUnreadBadge(count) ==
    IF ~badgePresent THEN [text |-> badgeText, shown |-> badgeShown]
    ELSE IF count > 0
    THEN [text |-> IF count > 99 THEN <<"9", "9", "+">> ELSE Format(count), shown |-> TRUE]
    ELSE [text |-> badgeText, shown |-> FALSE]

\* the unread counts and list lengths carried by the frames
UnreadCounts == {0, 2, 99}

InboundTypes ==
    {"connection_established", "new_notification", "unread_count", "mark_read_response",
     "mark_all_read_response", "notifications_list", "pong"}

\* the case of the switch of handleMessage that a frame type selects
Dispatch_FallThrough(type) ==
    IF type \in InboundTypes THEN type ELSE "mark_all_read_response"
Dispatch_PongResets(type) ==
    IF type = "pong" THEN "mark_all_read_response"
    ELSE IF type \in InboundTypes THEN type ELSE "default"
Dispatch(type) == IF type \in InboundTypes THEN type ELSE "default"

\* the message events: shape "full" has every field handleMessage reads,
\* "no_message" is a new_notification whose notification has no message,
\* "partial" lacks the payload object of its type, "not_json" is not JSON
Frames ==
    {[type |-> t, count |-> n, shape |-> "full"] :
        t \in {"connection_established", "unread_count", "notifications_list"},
        n \in UnreadCounts}
    \cup {[type |-> t, count |-> 0, shape |-> "full"] :
        t \in {"new_notification", "mark_read_response", "mark_all_read_response",
               "pong", "typing"}}
    \cup {[type |-> "new_notification", count |-> 0, shape |-> "no_message"]}
    \cup {[type |-> t, count |-> 0, shape |-> "partial"] :
        t \in {"connection_established", "new_notification", "notifications_list"}}
    \cup {[type |-> "unparsable", count |-> 0, shape |-> "not_json"]}

\* `this.ws.send(...)` of an outbound action: one frame when the socket is
\* open, none otherwise
FramesSentBy_Always(open) == 1
FramesSentBy(open) == IF open THEN 1 ELSE 0

\* ws.onmessage of socket i with handleMessage, handleNewNotification,
\* updateUnreadBadge, showNotificationToast and renderNotifications; an
\* exception thrown by a handler is caught and logged by onmessage.
SocketMessage(i, f) ==
    /\ i \in 1..Len(sockets)
    /\ sockets[i] = "OPEN"
    /\ framesReceived < MaxFrames
    /\ framesReceived' = framesReceived + 1
    /\ lastFrame' = f.type
    /\ LET case == Dispatch(f.type)
           badge ==
              IF f.shape \in {"partial", "not_json"}
              THEN [text |-> badgeText, shown |-> badgeShown]
              ELSE IF case \in {"connection_established", "unread_count"}
              THEN updateUnreadBadge(f.count)
              ELSE IF case = "mark_all_read_response" THEN updateUnreadBadge(0)
              ELSE IF case = "new_notification" /\ badgePresent
              THEN updateUnreadBadge(PlusOne(CurrentCount(badgeText, badgeShown)))
              ELSE [text |-> badgeText, shown |-> badgeShown]
           toasted == case = "new_notification" /\ f.shape = "full"
       IN /\ badgeText' = badge.text
          /\ badgeShown' = badge.shown
          /\ toastsShown' = IF toasted THEN toastsShown + 1 ELSE toastsShown
          /\ sentFrames' = IF toasted /\ menuOpen
                           THEN sentFrames + FramesSentBy(IsOpen) ELSE sentFrames
          /\ notifList' = IF case = "notifications_list" /\ f.shape = "full"
                          THEN (IF f.count = 0 THEN "empty" ELSE "items")
                          ELSE notifList
    /\ UNCHANGED <<auxVars, keyVars, urlVars, loaded, now, queueVars, sessionVars, sockets, ws, reconnectAttempts,
                   isConnecting, heartbeatInterval, heartbeatTimers, reconnectTimers,
                   reconnectButtons, pings, delaysSinceReset, reconnectClicks,
                   badgePresent, menuOpen, callsMade>>

OutboundActions == {"mark_read", "mark_all_read", "get_notifications"}

\* markAsRead(id), markAllAsRead() and loadNotifications(limit)
OutboundCall(action) ==
    /\ "notifications" \in loaded
    /\ callsMade < MaxCalls
    /\ callsMade' = callsMade + 1
    /\ sentFrames' = sentFrames + FramesSentBy(IsOpen)
    /\ UNCHANGED <<auxVars, keyVars, urlVars, loaded, now, queueVars, sessionVars, sockets, ws, reconnectAttempts,
                   isConnecting, heartbeatInterval, heartbeatTimers, reconnectTimers,
                   reconnectButtons, pings, delaysSinceReset, reconnectClicks,
                   badgePresent, badgeText, badgeShown, menuOpen, notifList, toastsShown,
                   framesReceived, lastFrame>>

FrameClockValues == {StartTime + k * reconnectDelay : k \in 0..MaxFrameTicks}

\* Time passes until the next timer is due; the timers that are due have run.
FrameTimePasses ==
    /\ reconnectTimers \cup heartbeatTimers # {}
    /\ \A t \in reconnectTimers \cup heartbeatTimers : t.due > now
    /\ \E t \in reconnectTimers \cup heartbeatTimers :
          /\ \A u \in reconnectTimers \cup heartbeatTimers : t.due <= u.due
          /\ t.due \in FrameClockValues
          /\ now' = t.due
    /\ UNCHANGED <<auxVars, keyVars, urlVars, loaded, queueVars, sessionVars, socketVars>>

InitFrames ==
    /\ loaded = {"notifications"}
    /\ now = StartTime
    /\ tokenSources = NoToken
    /\ QueueInit
    /\ SessionInit
    /\ SocketInit
    /\ KeysInit
    /\ AuxInit
    /\ UrlInit
    /\ badgePresent \in BOOLEAN
    /\ badgeText = <<>>
    /\ badgeShown = FALSE
    /\ menuOpen \in BOOLEAN
    /\ notifList = "initial"
    /\ toastsShown = 0
    /\ framesReceived = 0
    /\ lastFrame = "none"
    /\ sentFrames = 0
    /\ callsMade = 0

NextFrames ==
    \/ \E i \in 1..MaxFrameSockets : SocketOpen(i)
    \/ \E i \in 1..MaxFrameSockets : SocketClosing(i)
    \/ \E i \in 1..MaxFrameSockets : SocketClose(i)
    \/ \E t \in reconnectTimers : ReconnectTimerFire(t) /\ Len(sockets') <= MaxFrameSockets
    \/ \E t \in heartbeatTimers : HeartbeatFire(t)
    \/ FrameTimePasses
    \/ \E i \in 1..MaxFrameSockets : \E f \in Frames : SocketMessage(i, f)
    \/ \E a \in OutboundActions : OutboundCall(a)

SpecFrames == InitFrames /\ [][NextFrames]_vars

\* ------------------------------------------------------------------------
\* Keyboard listeners
\* ------------------------------------------------------------------------
\* the keys pressed: the function key, the letters of the shortcuts, a
\* digit of the Mac screenshot shortcuts, the modifier itself and a key that
\* no listener names
Keys == {"F12", "i", "j", "c", "u", "s", "p", "x", "a", "PrintScreen", "Meta", "3", "q"}

\* KeyboardEvent.keyCode of a key
KeyCodeOf(k) ==
    CASE k = "F12" -> 123
      [] k = "i" -> 73
      [] k = "j" -> 74
      [] k = "c" -> 67
      [] k = "u" -> 85
      [] k = "s" -> 83
      [] k = "p" -> 80
      [] k = "x" -> 88
      [] k = "a" -> 65
      [] k = "PrintScreen" -> 44
      [] k = "Meta" -> 91
      [] k = "3" -> 51
      [] k = "q" -> 81

Letters == {"i", "j", "c", "u", "s", "p", "x", "a", "q"}

toUpperCase(k) ==
    CASE k = "i" -> "I"
      [] k = "j" -> "J"
      [] k = "c" -> "C"
      [] k = "u" -> "U"
      [] k = "s" -> "S"
      [] k = "p" -> "P"
      [] k = "x" -> "X"
      [] k = "a" -> "A"
      [] k = "q" -> "Q"
      [] OTHER -> k

\* KeyboardEvent.key: a letter is upper case while Shift is held
KeyOf(e) ==
    IF e.shift /\ e.key \in Letters THEN toUpperCase(e.key)
    ELSE IF e.shift /\ e.key = "3" THEN "#"
    ELSE e.key

\* KeyboardEvent.code: the physical key
CodeOf(e) ==
    IF e.key \in Letters THEN "Key" \o toUpperCase(e.key)
    ELSE IF e.key = "Meta" THEN "MetaLeft"
    ELSE IF e.key = "3" THEN "Digit3"
    ELSE e.key

\* the focused element: page content, an input outside any form, an input
\* of a form, a link of the sidebar navigation, an element of the chat widget
Elements == {"content", "input", "form_input", "nav_link", "chat"}

\* the keyboard events: metaKey is set while the Meta key itself goes down
KeyEvents ==
    {e \in [key : Keys, ctrl : BOOLEAN, shift : BOOLEAN, meta : BOOLEAN, alt : BOOLEAN] :
        e.key = "Meta" => e.meta}

IsPrintScreen(e) == KeyCodeOf(e.key) = 44 \/ KeyOf(e) = "PrintScreen"

MacDigits == {51, 52, 53, 54}

\* isExemptedElement of the strict script: form controls and the chat widget
strictIsExemptedElement(el) == el \in {"input", "form_input", "chat"}

\* isExemptedElement of the warning-only script: EXEMPTED_SELECTORS, matched
\* by the element or an ancestor (navigation, .btn, form)
warningOnlyIsExemptedElement(el) == el \in {"form_input", "nav_link"}

Outcome(p, c) == [prevented |-> p, calls |-> c]
NoOutcome == Outcome(FALSE, <<>>)

\* the keydown listener of the strict script
strictKeydown(e, el) ==
    LET kc == KeyCodeOf(e.key)
        k == KeyOf(e)
    IN  IF kc = 123 \/ k = "F12" THEN Outcome(TRUE, <<"f12_blocked">>)
        ELSE IF e.ctrl /\ e.shift /\ (kc = 73 \/ k = "I") THEN Outcome(TRUE, <<"inspect_blocked">>)
        ELSE IF e.ctrl /\ e.shift /\ (kc = 74 \/ k = "J") THEN Outcome(TRUE, <<"console_blocked">>)
        ELSE IF e.ctrl /\ e.shift /\ (kc = 67 \/ k = "C") THEN Outcome(TRUE, <<"inspect_blocked">>)
        ELSE IF e.ctrl /\ (kc = 85 \/ k = "u") THEN Outcome(TRUE, <<"view_source_blocked">>)
        ELSE IF e.ctrl /\ (kc = 83 \/ k = "s") THEN Outcome(TRUE, <<"save_blocked">>)
        ELSE IF e.ctrl /\ (kc = 80 \/ k = "p") THEN Outcome(TRUE, <<"print_blocked">>)
        ELSE IF e.ctrl /\ (kc = 67 \/ k = "c") /\ ~e.shift /\ ~strictIsExemptedElement(el)
        THEN Outcome(TRUE, <<"ctrl_c_blocked">>)
        ELSE IF e.ctrl /\ (kc = 88 \/ k = "x") /\ ~strictIsExemptedElement(el)
        THEN Outcome(TRUE, <<"ctrl_x_blocked">>)
        ELSE IF e.ctrl /\ (kc = 65 \/ k = "a") /\ ~strictIsExemptedElement(el)
        THEN Outcome(TRUE, <<>>)
        ELSE NoOutcome

\* the keydown listener of the warning-only script: it warns and reports
\* nothing
warningOnlyKeydown(e, el) ==
    LET k == KeyOf(e)
    IN  IF warningOnlyIsExemptedElement(el) THEN NoOutcome
        ELSE IF \/ k = "F12"
                \/ e.ctrl /\ e.shift /\ k \in {"I", "J", "C"}
                \/ e.ctrl /\ k \in {"u", "s", "p"}
        THEN Outcome(TRUE, <<>>)
        ELSE NoOutcome

\* the tests of the banking keydown listener, in their order, each with the
\* violationType it assigns
bankingTests(e) ==
    LET kc == KeyCodeOf(e.key)
    IN <<[hit |-> IsPrintScreen(e), type |-> "screenshot_attempt"],
         [hit |-> KeyOf(e) = "Meta" /\ e.shift /\ kc = 83, type |-> "screenshot_tool_detected"],
         [hit |-> e.alt /\ IsPrintScreen(e), type |-> "screenshot_attempt"],
         [hit |-> e.meta /\ e.shift /\ kc \in MacDigits, type |-> "screenshot_attempt"],
         [hit |-> (e.ctrl \/ e.meta) /\ kc \in {67, 88, 86, 65}, type |-> "copy_attempt"],
         [hit |-> \/ kc = 123
                  \/ e.ctrl /\ e.shift /\ kc \in {73, 74}
                  \/ e.ctrl /\ kc = 85,
          type |-> "devtools_detected"]>>

\* the keydown listener of the banking script: the last test that matches
\* decides violationType
bankingKeydown(e) ==
    LET tests == bankingTests(e)
        hits == {i \in 1..Len(tests) : tests[i].hit}
    IN  IF hits = {} THEN NoOutcome
        ELSE Outcome(TRUE, <<tests[CHOOSE i \in hits : \A j \in hits : j <= i].type>>)

\* the keydown listener of detectScreenshot of the ucp script
detectScreenshotKeydown(e) ==
    IF IsPrintScreen(e) THEN Outcome(TRUE, <<"printscreen_key">>)
    ELSE IF KeyOf(e) = "Meta" /\ e.shift /\ CodeOf(e) = "KeyS"
    THEN Outcome(TRUE, <<"snipping_tool">>)
    ELSE NoOutcome

\* the keydown listener of the screenshot script; it reports to
\* window.CustomerSecurity when the core script is loaded
screenshotKeydown(e) ==
    LET kc == KeyCodeOf(e.key)
        report(type) == IF "core" \in loaded THEN <<type>> ELSE <<>>
    IN  IF (KeyOf(e) = "Meta" \/ e.meta) /\ e.shift /\ kc = 83
        THEN Outcome(TRUE, report("snipping_tool"))
        ELSE IF e.meta /\ e.shift /\ kc \in MacDigits
        THEN Outcome(TRUE, report("mac_screenshot"))
        ELSE IF IsPrintScreen(e) THEN Outcome(TRUE, report("printscreen"))
        ELSE NoOutcome

\* the keyup listener of the screenshot script
screenshotKeyup(e) ==
    IF IsPrintScreen(e) /\ "core" \in loaded THEN <<"screenshot_attempt">> ELSE <<>>

\* the first keydown listener of the ultimate script: every test that
\* matches runs its own sendSecurityViolation
ultimateKeydown(e) ==
    LET kc == KeyCodeOf(e.key)
        sends == <<IsPrintScreen(e),
                   e.meta /\ e.shift /\ kc = 83,
                   e.meta /\ e.shift /\ kc \in MacDigits,
                   e.alt /\ IsPrintScreen(e)>>
        blocked == \/ kc = 123
                   \/ e.ctrl /\ e.shift /\ kc \in {73, 74, 67}
                   \/ e.ctrl /\ kc = 85
                   \/ \E i \in 1..4 : sends[i]
    IN  Outcome(blocked,
                [i \in 1..Cardinality({j \in 1..4 : sends[j]}) |-> "screenshot"])

\* what the keydown listener of script s does with event e
KeydownOutcome(s, e, el) ==
    CASE s = "strict"       -> strictKeydown(e, el)
      [] s = "warning_only" -> warningOnlyKeydown(e, el)
      [] s = "banking"      -> bankingKeydown(e)
      [] s = "ucp"          -> detectScreenshotKeydown(e)
      [] s = "screenshot"   -> screenshotKeydown(e)
      [] s = "ultimate"     -> ultimateKeydown(e)

\* what the keyup listener of script s reports for event e
KeyupReports(s, e) ==
    CASE s = "strict"       -> IF IsPrintScreen(e) THEN <<"printscreen_blocked">> ELSE <<>>
      [] s = "warning_only" -> IF IsPrintScreen(e) THEN <<"screenshot_attempt">> ELSE <<>>
      [] s = "screenshot"   -> screenshotKeyup(e)
      [] OTHER              -> <<>>

\* the call of window.CustomerSecurity.incrementViolation made by a listener
\* of the screenshot script, if it makes one
ReportToCore(reported) ==
    IF reported # <<>>
    THEN incrementViolationCall(reported[1])
    ELSE UNCHANGED <<urlVars, loaded, now, queueVars, socketVars, sessionVars>>

\* a key goes down with element el focused: the keydown listeners run
KeyDown(e, el) ==
    /\ keyEvent.phase # "keydown"
    /\ presses < MaxKeyPresses
    /\ presses' = presses + 1
    /\ pressBase' = violations["core"]
    /\ keyEvent' = [phase |-> "keydown", key |-> e.key, ctrl |-> e.ctrl, shift |-> e.shift,
                    meta |-> e.meta, alt |-> e.alt, focus |-> el]
    /\ prevented' = [s \in KeyScripts |-> s \in loaded /\ KeydownOutcome(s, e, el).prevented]
    /\ calls' = [s \in KeyScripts |->
                    IF s \in loaded THEN KeydownOutcome(s, e, el).calls ELSE <<>>]
    /\ ReportToCore(IF "screenshot" \in loaded THEN screenshotKeydown(e).calls ELSE <<>>)
    /\ UNCHANGED <<auxVars, tokenFound>>

\* the key is released: the keyup listeners run
KeyUp ==
    /\ keyEvent.phase = "keydown"
    /\ keyEvent' = [keyEvent EXCEPT !.phase = "keyup"]
    /\ calls' = [s \in KeyScripts |->
                    IF s \in loaded THEN calls[s] \o KeyupReports(s, keyEvent) ELSE calls[s]]
    /\ ReportToCore(IF "screenshot" \in loaded THEN screenshotKeyup(keyEvent) ELSE <<>>)
    /\ UNCHANGED <<auxVars, prevented, presses, pressBase, tokenFound>>

KeyPages == {KeyScripts \cup {"core"}, KeyScripts}

InitKeys ==
    /\ loaded \in KeyPages
    /\ now = StartTime
    /\ tokenSources = NoToken
    /\ QueueInit
    /\ SessionInit
    /\ SocketAbsent
    /\ KeysInit
    /\ AuxInit
    /\ UrlInit

NextKeys ==
    \/ \E e \in KeyEvents : \E el \in Elements : KeyDown(e, el)
    \/ KeyUp

SpecKeys == InitKeys /\ [][NextKeys]_vars

\* ------------------------------------------------------------------------
\* Token lookups of the other scripts
\* ------------------------------------------------------------------------
\* getCsrfToken() of the banking script
getCsrfToken(src) ==
    IF src.form # "" THEN src.form
    ELSE IF src.meta # "" THEN src.meta
    ELSE src.cookie

\* the lookup at the head of logToServer
logToServerToken(src) == IF src.form # "" THEN src.form ELSE src.meta

\* the token that script s finds
TokenLookup(s, src) ==
    CASE s = "banking"  -> getCsrfToken(src)
      [] s = "advanced" -> logToServerToken(src)
      [] OTHER          -> getCSRFToken(src)

\* every combination of present and absent sources, with distinct values
TokenCombos ==
    [meta : {"", "meta-token"}, form : {"", "form-token"}, cookie : {"", "cookie-token"}]

\* script s looks the token up
LookupToken(s) ==
    /\ s \in loaded \cap TokenScripts
    /\ tokenFound' = [tokenFound EXCEPT ![s] = TokenLookup(s, tokenSources)]
    /\ UNCHANGED <<auxVars, urlVars, loaded, now, queueVars, sessionVars, socketVars, keyEvent, prevented,
                   calls, presses, pressBase>>

InitToken ==
    /\ loaded = TokenScripts
    /\ now = StartTime
    /\ tokenSources \in TokenCombos
    /\ QueueInit
    /\ SessionInit
    /\ SocketAbsent
    /\ KeysInit
    /\ AuxInit
    /\ UrlInit

NextToken == \E s \in TokenScripts : LookupToken(s)

SpecToken == InitToken /\ [][NextToken]_vars

\* ------------------------------------------------------------------------
\* The violation counters under every operation of their scripts
\* ------------------------------------------------------------------------
CounterClockValues ==
    {StartTime + k * CHECK_INTERVAL_MS + m * MINUTE_MS :
        k \in 0..MaxCounterSeconds, m \in 0..MaxCounterMinutes}

CounterPages == {{"core"}, {"banking"}, {"ucp"}}

InitCounters ==
    /\ loaded \in CounterPages
    /\ now = StartTime
    /\ tokenSources = [NoToken EXCEPT !.cookie = "cookie-token"]
    /\ QueueInit
    /\ SessionInit
    /\ SocketAbsent
    /\ KeysInit
    /\ AuxInit
    /\ UrlInit

\* the violations and the blur detectors act when the page has just loaded,
\* the timeouts afterwards
NextCounters ==
    \/ \E d \in IdleTimeSteps :
          /\ loaded \subseteq SessionScripts
          /\ now + d \in CounterClockValues
          /\ IdleTimePasses(d)
    \/ \E s \in SessionScripts : updateActivity(s)
    \/ \E s \in SessionScripts : checkSession(s)
    \/ \E s \in SessionScripts : dismissTimeoutWarning(s)
    \/ \E t \in IdleClockValues : warnTimerFire(t)
    \/ \E id \in 1..MaxCounterEvents : now = sessionStart /\ WarningTimerFire(id)
    \/ /\ redirect = "page"
       /\ now = sessionStart
       /\ violations["core"] < MaxCounterEvents
       /\ incrementViolation("copy_attempt")
    \/ /\ redirect = "page"
       /\ now = sessionStart
       /\ coreInflight["screen_blurred"] < MaxCounterBlurs
       /\ overlays["banking"] < MaxCounterBlurs
       /\ \/ \E r \in BlurReasons("core") : blurScreen(r)
          \/ \E r \in BlurReasons("banking") : bankingBlurScreen(r)
    \/ /\ redirect = "page"
       /\ now = sessionStart
       /\ unblurScreen
    \/ /\ redirect = "page"
       /\ now = sessionStart
       /\ Len(reports["banking"]) < MaxCounterBanking
       /\ bankingLogViolation("copy_attempt")
    \/ /\ redirect = "page"
       /\ now = sessionStart
       /\ \E i \in 1..MaxCounterBanking : bankingLogSettle(i, "success")
    \/ logActivity("ucp", "right_click")
    \/ TimerFire("ucp")
    \/ \E i \in 1..MaxEnqueue : FetchSettle("ucp", i, "ok")
    \/ \E d \in TimeSteps : "ucp" \in loaded /\ AdvanceTime(d)

SpecCounters == InitCounters /\ [][NextCounters]_vars

\* ------------------------------------------------------------------------
\* The window-size heuristic for open developer tools (strict, ultimate,
\* screenshot and banking scripts)
\* ------------------------------------------------------------------------
\* differences between the outer and the inner size of the window
SizeDiffs == {0, WindowSizeThreshold, WindowSizeThreshold + 1}

\* `widthDiff > threshold || heightDiff > threshold`
SizeAbove(d) == d.w > WindowSizeThreshold \/ d.h > WindowSizeThreshold

DevClockValues == {StartTime + k * 500 : k \in 0..MaxDevTicks}

\* The user docks, undocks or resizes the developer tools, or resizes the
\* window.
Resize(d) ==
    /\ d # sizeDiff
    /\ sizeDiff' = d
    /\ UNCHANGED <<keyVars, urlVars, loaded, now, queueVars, sessionVars, socketVars,
                   devtoolsOpen, pollDue, pollsAbove, episodeReports, advVars, protVars>>

\* Time passes up to the next poll of a loaded script.
DevTimePasses ==
    /\ \A s \in loaded \cap DevScripts : pollDue[s] > now
    /\ \E s \in loaded \cap DevScripts :
          /\ \A u \in loaded \cap DevScripts : pollDue[s] <= pollDue[u]
          /\ pollDue[s] \in DevClockValues
          /\ now' = pollDue[s]
    /\ UNCHANGED <<keyVars, urlVars, loaded, queueVars, sessionVars, socketVars, auxVars>>

\* The calls made by the heuristic of s when it reports open tools.
\*   strict    : showWarning, logActivity('devtools_detected', ...)
\*   ultimate  : sendSecurityViolation('devtools_opened', ...) (a request
\*               that nothing waits for), showBlockedAlert
\*   screenshot: CustomerSecurity.logEvent and incrementViolation('devtools')
\*               when the core script is loaded, showDevToolsWarning
\*   banking   : logViolation('devtools_detected', ...), then
\*               blurScreen('Developer tools detected'), which returns at once
\*               when the screen is blurred already and otherwise sets
\*               isBlurred, calls logViolation('screen_recording', ...) and
\*               attaches the overlay
DevToolsReport(s) ==
    CASE s = "strict" -> logActivityCall("strict", "devtools_detected")
      [] s = "ultimate" ->
            UNCHANGED <<keyVars, urlVars, loaded, now, queueVars, sessionVars, socketVars>>
      [] s = "screenshot" ->
            IF "core" \in loaded
            THEN incrementViolationCall("devtools") /\ UNCHANGED keyVars
            ELSE UNCHANGED <<keyVars, urlVars, loaded, now, queueVars, sessionVars, socketVars>>
      [] s = "banking" ->
            LET n == Len(reports["banking"])
                first == [id |-> n + 1, type |-> "devtools_detected", timestamp |-> now]
                second == [id |-> n + 2, type |-> "screen_recording", timestamp |-> now]
            IN /\ n + 2 <= MaxBankingEvents
               /\ IF isBlurred["banking"]
                  THEN /\ reports' = [reports EXCEPT !["banking"] = Append(@, first)]
                       /\ pending' = Append(pending, first)
                       /\ UNCHANGED blurVars
                  ELSE /\ reports' = [reports EXCEPT !["banking"] = @ \o <<first, second>>]
                       /\ pending' = pending \o <<first, second>>
                       /\ isBlurred' = [isBlurred EXCEPT !["banking"] = TRUE]
                       /\ overlays' = [overlays EXCEPT !["banking"] = @ + 1]
               /\ UNCHANGED <<keyVars, urlVars, loaded, now, queueVars, socketVars, idleVars,
                              violations, body, blockRenders, violationWarning, warningsShown,
                              warningTimers, deliveryVars>>

\* The violations that the step hands to the reporting function of s: the
\* records pushed by logActivity, the sendSecurityViolation call, the
\* increments of the core counter, the requests of logViolation.
ViolationsReported(s) ==
    CASE s = "strict" -> Len(enqueued'["strict"]) - Len(enqueued["strict"])
      [] s = "ultimate" -> 1
      [] s = "screenshot" -> violations'["core"] - violations["core"]
      [] s = "banking" -> Len(reports'["banking"]) - Len(reports["banking"])

\* detectDevTools() of s, the callback of its setInterval
detectDevTools(s) ==
    /\ s \in loaded \cap DevScripts
    /\ pollDue[s] <= now
    /\ pollDue' = [pollDue EXCEPT ![s] = @ + PollInterval(s)]
    /\ UNCHANGED <<sizeDiff, advVars, protVars>>
    /\ IF SizeAbove(sizeDiff)
       THEN /\ pollsAbove' = [pollsAbove EXCEPT ![s] = @ + 1]
            /\ IF ~devtoolsOpen[s]
               THEN /\ devtoolsOpen' = [devtoolsOpen EXCEPT ![s] = TRUE]
                    /\ DevToolsReport(s)
                    /\ episodeReports' = [episodeReports EXCEPT ![s] = @ + ViolationsReported(s)]
               ELSE UNCHANGED <<keyVars, urlVars, loaded, now, queueVars, sessionVars,
                                socketVars, devtoolsOpen, episodeReports>>
       ELSE /\ devtoolsOpen' = [devtoolsOpen EXCEPT ![s] = FALSE]
            /\ pollsAbove' = [pollsAbove EXCEPT ![s] = 0]
            /\ episodeReports' = [episodeReports EXCEPT ![s] = 0]
            /\ UNCHANGED <<keyVars, urlVars, loaded, now, queueVars, sessionVars, socketVars>>

\* the pages of this part: each script alone, and the screenshot script
\* with the core script whose counter it drives
DevPages == {{"strict"}, {"ultimate"}, {"screenshot"}, {"screenshot", "core"}, {"banking"}}

\* the tools can be docked already when the page loads
InitDevTools ==
    /\ loaded \in DevPages
    /\ now = StartTime
    /\ tokenSources = [NoToken EXCEPT !.cookie = "cookie-token"]
    /\ QueueInit
    /\ SessionInit
    /\ SocketAbsent
    /\ KeysInit
    /\ UrlInit
    /\ sizeDiff \in [w : SizeDiffs, h : SizeDiffs]
    /\ DevStateInit
    /\ AdvInit
    /\ ProtInit

NextDevTools ==
    \/ \E d \in [w : SizeDiffs, h : SizeDiffs] : Resize(d)
    \/ \E s \in DevScripts : detectDevTools(s)
    \/ DevTimePasses

SpecDevTools == InitDevTools /\ [][NextDevTools]_vars

\* ------------------------------------------------------------------------
\* The blur overlay of the advanced screenshot detection script
\* (advanced_screenshot_detection.js)
\* ------------------------------------------------------------------------
FOCUS_LOSS_WINDOW_MS == 5000
OVERLAY_FADE_MS == 300
TEMPORARY_BLUR_MS == 3000

\* blurContent(): the overlay attached afterwards and the number of overlay
\* elements created; ov is [el, made]
blurContent(ov) ==
    IF ov.el # 0 THEN ov ELSE [el |-> ov.made + 1, made |-> ov.made + 1]

\* unblurContent(): the removal timers afterwards.  The callback removes
\* the element that was attached when unblurContent ran.
unblurContent(el, tm) ==
    IF el # 0 THEN tm \cup {[el |-> el, due |-> now + OVERLAY_FADE_MS]} ELSE tm

\* the visibilitychange listener; showScreenshotWarning and logToServer
\* touch only the warning modal and the network
VisibilityChange ==
    /\ "advanced" \in loaded
    /\ advEvents < MaxAdvEvents
    /\ advEvents' = advEvents + 1
    /\ docHidden' = ~docHidden
    /\ IF docHidden'
       THEN LET quick == now - lastFocusLoss < FOCUS_LOSS_WINDOW_MS
                count == IF quick THEN focusLossCount + 1 ELSE 1
                temporarily == quick /\ count >= 2
                ov == blurContent([el |-> advOverlay, made |-> advOverlaysMade])
            IN /\ focusLossCount' = count
               /\ lastFocusLoss' = now
               /\ advTempTimers' = IF temporarily
                                     THEN advTempTimers \cup {now + TEMPORARY_BLUR_MS}
                                     ELSE advTempTimers
               /\ advOverlay' = ov.el
               /\ advOverlaysMade' = ov.made
               /\ UNCHANGED advRemoveTimers
       ELSE /\ advRemoveTimers' = unblurContent(advOverlay, advRemoveTimers)
            /\ UNCHANGED <<advOverlay, advOverlaysMade, advTempTimers, focusLossCount,
                           lastFocusLoss>>
    /\ UNCHANGED <<keyVars, urlVars, loaded, now, queueVars, sessionVars, socketVars, devVars, protVars,
                   winFocused>>

\* the blur listener of the window
WindowBlur ==
    /\ "advanced" \in loaded
    /\ advEvents < MaxAdvEvents
    /\ winFocused
    /\ advEvents' = advEvents + 1
    /\ winFocused' = FALSE
    /\ LET ov == blurContent([el |-> advOverlay, made |-> advOverlaysMade])
       IN advOverlay' = ov.el /\ advOverlaysMade' = ov.made
    /\ UNCHANGED <<keyVars, urlVars, loaded, now, queueVars, sessionVars, socketVars, devVars, protVars,
                   docHidden, advRemoveTimers, advTempTimers, focusLossCount, lastFocusLoss>>

\* the focus listener of the window
WindowFocus ==
    /\ "advanced" \in loaded
    /\ advEvents < MaxAdvEvents
    /\ ~winFocused
    /\ advEvents' = advEvents + 1
    /\ winFocused' = TRUE
    /\ advRemoveTimers' = unblurContent(advOverlay, advRemoveTimers)
    /\ UNCHANGED <<keyVars, urlVars, loaded, now, queueVars, sessionVars, socketVars, devVars, protVars,
                   docHidden, advOverlay, advOverlaysMade, advTempTimers, focusLossCount,
                   lastFocusLoss>>

\* `setTimeout(() => overlay.remove(), 300)` fires: remove() of an element
\* that is no longer attached does nothing
OverlayRemoveFire(t) ==
    /\ t \in advRemoveTimers
    /\ t.due <= now
    /\ advRemoveTimers' = advRemoveTimers \ {t}
    /\ advOverlay' = IF advOverlay = t.el THEN 0 ELSE advOverlay
    /\ UNCHANGED <<keyVars, urlVars, loaded, now, queueVars, sessionVars, socketVars, devVars, protVars,
                   docHidden, winFocused, advOverlaysMade, advTempTimers, focusLossCount,
                   lastFocusLoss, advEvents>>

\* the 3 s timer of blurContentTemporarily fires
TemporaryBlurFire(t) ==
    /\ t \in advTempTimers
    /\ t <= now
    /\ advTempTimers' = advTempTimers \ {t}
    /\ advRemoveTimers' = IF ~docHidden THEN unblurContent(advOverlay, advRemoveTimers)
                          ELSE advRemoveTimers
    /\ UNCHANGED <<keyVars, urlVars, loaded, now, queueVars, sessionVars, socketVars, devVars, protVars,
                   docHidden, winFocused, advOverlay, advOverlaysMade, focusLossCount,
                   lastFocusLoss, advEvents>>

\* the due times of the pending timers of the script
AdvDueTimes == {t.due : t \in advRemoveTimers} \cup advTempTimers

\* Time passes while a timer is pending: 100 ms, or up to the earliest due
\* time; a timer runs once it is due.
AdvTimePasses(d) ==
    /\ AdvDueTimes # {}
    /\ \A t \in AdvDueTimes : now + d <= t
    /\ now' = now + d
    /\ UNCHANGED <<keyVars, urlVars, loaded, queueVars, sessionVars, socketVars, auxVars>>

AdvTimeSteps == {100} \cup {t - now : t \in AdvDueTimes}

InitAdvanced ==
    /\ loaded = {"advanced"}
    /\ now = StartTime
    /\ tokenSources = [NoToken EXCEPT !.cookie = "cookie-token"]
    /\ QueueInit
    /\ SessionInit
    /\ SocketAbsent
    /\ KeysInit
    /\ UrlInit
    /\ AuxInit

NextAdvanced ==
    \/ VisibilityChange
    \/ WindowBlur
    \/ WindowFocus
    \/ \E t \in advRemoveTimers : OverlayRemoveFire(t)
    \/ \E t \in advTempTimers : TemporaryBlurFire(t)
    \/ \E d \in AdvTimeSteps : d > 0 /\ AdvTimePasses(d)

SpecAdvanced == InitAdvanced /\ [][NextAdvanced]_vars

\* ------------------------------------------------------------------------
\* Content protection scripts: ultimate_content_protection.js ("ucp") and
\* the professional script.  initialize() registers anonymous listeners, so
\* every listener exists initialized[s] times and an event runs all copies.
\* ------------------------------------------------------------------------
BLUR_CHECK_MS == 200
HIDDEN_CHECK_MS == 300
BLACK_SCREEN_MS == 5000
BLACK_FADE_MS == 300

\* the blur flag and the number of attached overlay elements of script s
BlurState(s) == [active |-> blurActive[s], count |-> blurOverlays[s]]

\* showBlurOverlay(): `if (flag || isTawkActive()) return;` then append and set
showBlurOverlay(st) ==
    IF st.active \/ tawkActive THEN st
    ELSE [active |-> TRUE, count |-> st.count + 1]

\* hideBlurOverlay(): `if (overlay) { overlay.remove(); flag = false; }`
hideBlurOverlay_FlagKept(st) ==
    IF st.count > 0 THEN [active |-> st.active, count |-> st.count - 1] ELSE st
hideBlurOverlay(st) ==
    IF st.count > 0 THEN [active |-> FALSE, count |-> st.count - 1] ELSE st

\* hideBlurOverlay() called by each of n listener copies in turn
RECURSIVE hideBlurOverlayTimes(_, _)
hideBlurOverlayTimes(st, n) ==
    IF n = 0 THEN st ELSE hideBlurOverlayTimes(hideBlurOverlay(st), n - 1)

\* n copies of one value, one per listener copy
Copies(n, x) == [k \in 1..n |-> x]

\* the timers set by n listener copies that each call setTimeout(..., delay)
TimersSet(n, kind, delay) ==
    [t \in {[kind |-> kind, el |-> 0, due |-> now + delay]} |-> n]

\* logViolation of the ucp script called once per entry of types, in order,
\* within one handler
ucpLogViolations(types) ==
    IF types = <<>>
    THEN UNCHANGED <<queueVars, urlVars>>
    ELSE LET base == Len(enqueued["ucp"])
             recs == [k \in 1..Len(types) |->
                        [id |-> base + k, type |-> types[k], timestamp |-> now]]
             q == logQueue["ucp"] \o recs
         IN /\ enqueued' = [enqueued EXCEPT !["ucp"] =
                   @ \o [k \in 1..Len(types) |-> [id |-> base + k, type |-> types[k]]]]
            /\ pushedAt' = [pushedAt EXCEPT !["ucp"] =
                   [first |-> IF enqueued["ucp"] = <<>> THEN now ELSE @.first,
                    last |-> now]]
            /\ violationCount' = violationCount + Len(types)
            /\ suspiciousActivityLevel' = suspiciousActivityLevel + Len(types)
            /\ IF MustStartDrain("ucp")
               THEN Drain("ucp", q, timers["ucp"])
               ELSE /\ logQueue' = [logQueue EXCEPT !["ucp"] = q]
                    /\ UNCHANGED <<isLogging, timers, lastLogTime, inflight, sent,
                                   lastSentAt, lastTick>>
            /\ firedAt' = [firedAt EXCEPT !["ucp"] =
                   @ \o Copies(Len(types), [url |-> location, time |-> now])]
            /\ PayloadSent("ucp")
            /\ UNCHANGED <<tokenSources, settled, lastSettledAt, location>>

\* logViolation of the professional script called k times: the counter is
\* incremented, then a fetch is issued unless no token is found
profLogViolations(k) ==
    /\ profViolationCount' = profViolationCount + k
    /\ profRequests' =
           IF getCSRFToken(tokenSources) = "" THEN profRequests ELSE profRequests + k

\* the logViolation calls of one handler run of script s
ProtLog(s, types) ==
    IF s = "ucp"
    THEN ucpLogViolations(types) /\ UNCHANGED <<profViolationCount, profRequests>>
    ELSE profLogViolations(Len(types)) /\ UNCHANGED <<queueVars, urlVars>>

\* What one event or timer does to script s.  st2: blur flag and overlays
\* afterwards; tm: the pending timers it keeps plus the ones it sets;
\* black: showBlackScreen() is called (ucp only); before, after: the
\* violation types logged before and after the showBlackScreen() calls.
\* showBlackScreen() returns at once while a black screen is attached, else
\* attaches one, arms its 5 s timer and logs black_screen_triggered.
ProtEffect(s, st2, tm, black, before, after) ==
    LET created == black /\ blackScreen = 0
        el == blackScreensMade + 1
    IN /\ blurActive' = [blurActive EXCEPT ![s] = st2.active]
       /\ blurOverlays' = [blurOverlays EXCEPT ![s] = st2.count]
       /\ blurShown' = [blurShown EXCEPT ![s] =
              IF st2.count > blurOverlays[s] THEN @ + 1 ELSE @]
       /\ blackScreen' = IF created THEN el ELSE blackScreen
       /\ blackScreensMade' = IF created THEN el ELSE blackScreensMade
       /\ protTimers' = [protTimers EXCEPT ![s] =
              IF created
              THEN tm (+) SetToBag({[kind |-> "black_fade", el |-> el,
                                         due |-> now + BLACK_SCREEN_MS]})
              ELSE tm]
       /\ ProtLog(s, before
                     \o (IF created THEN <<"black_screen_triggered">> ELSE <<>>)
                     \o after)

\* what no protection handler touches
ProtFrame == UNCHANGED <<loaded, now, sessionVars, socketVars, keyVars, devVars, advOwnVars>>

\* window 'blur' listeners
ProtWindowBlur(s) ==
    /\ s \in loaded \cap ProtScripts
    /\ protEvents < MaxProtEvents
    /\ winFocused
    /\ winFocused' = FALSE
    /\ protEvents' = protEvents + 1
    /\ LET n == initialized[s]
           st2 == showBlurOverlay(BlurState(s))
           shown == st2.count > blurOverlays[s]
       IN IF tawkActive
          THEN /\ ProtEffect(s, BlurState(s), protTimers[s], FALSE, <<>>, <<>>)
               /\ UNCHANGED lastViolationTime
          ELSE /\ lastViolationTime' = IF s = "ucp" THEN now ELSE lastViolationTime
               /\ ProtEffect(s, st2,
                     protTimers[s] (+) TimersSet(n, "focus_check", BLUR_CHECK_MS),
                     FALSE,
                     IF s = "ucp"
                     THEN (IF shown THEN <<"content_blurred">> ELSE <<>>)
                          \o Copies(n, "window_blur")
                     ELSE <<>>,
                     <<>>)
    /\ UNCHANGED <<initialized, tawkActive, lastBlocked, docHidden>>
    /\ ProtFrame

\* window 'focus' listeners
ProtWindowFocus(s) ==
    /\ s \in loaded \cap ProtScripts
    /\ protEvents < MaxProtEvents
    /\ ~winFocused
    /\ winFocused' = TRUE
    /\ protEvents' = protEvents + 1
    /\ ProtEffect(s, hideBlurOverlayTimes(BlurState(s), initialized[s]),
                  protTimers[s], FALSE, <<>>, <<>>)
    /\ UNCHANGED <<initialized, tawkActive, lastBlocked, docHidden, lastViolationTime>>
    /\ ProtFrame

\* document 'visibilitychange' listeners
ProtVisibilityChange(s) ==
    /\ s \in loaded \cap ProtScripts
    /\ protEvents < MaxProtEvents
    /\ docHidden' = ~docHidden
    /\ protEvents' = protEvents + 1
    /\ LET n == initialized[s]
           st2 == showBlurOverlay(BlurState(s))
           shown == st2.count > blurOverlays[s]
       IN IF ~docHidden
          THEN IF s = "ucp"
               THEN ProtEffect(s, st2,
                        IF tawkActive THEN protTimers[s]
                        ELSE protTimers[s] (+) TimersSet(n, "hidden_check", HIDDEN_CHECK_MS),
                        FALSE,
                        (IF shown THEN <<"content_blurred">> ELSE <<>>)
                            \o Copies(n, "visibility_hidden"),
                        <<>>)
               ELSE ProtEffect(s, st2, protTimers[s], FALSE,
                               Copies(n, "visibility_change"), <<>>)
          ELSE ProtEffect(s, hideBlurOverlayTimes(BlurState(s), n),
                          protTimers[s], FALSE, <<>>, <<>>)
    /\ UNCHANGED <<initialized, tawkActive, lastBlocked, winFocused, lastViolationTime>>
    /\ ProtFrame

\* the events the scripts block, and the elements they can hit
ProtEventKinds == {"contextmenu", "copy", "F12", "a"}
ProtElements == {"content", "input"}

\* isExempted / isExemptedElement: 'input' is one of the exempted selectors
isExempted(el) == el = "input"

\* the listener of the event blocks it
ShouldBlock(kind, el) == kind # "a" /\ ~isExempted(el)

\* the violation type that the listener logs
BlockedType(kind) ==
    CASE kind = "contextmenu" -> "right_click"
      [] kind = "copy"        -> "copy_blocked"
      [] OTHER                -> "keyboard_shortcut"

\* 'contextmenu', 'copy' and 'keydown' listeners: el is the target (the
\* focused element for a key).  lastBlocked records how many logViolation
\* calls with the type of the event the dispatch made.
BlockedEvent(s, kind, el) ==
    /\ s \in loaded \cap ProtScripts
    /\ protEvents < MaxProtEvents
    /\ protEvents' = protEvents + 1
    /\ LET n == initialized[s]
       IN IF ShouldBlock(kind, el)
          THEN /\ ProtEffect(s, BlurState(s), protTimers[s], s = "ucp",
                             <<>>, Copies(n, BlockedType(kind)))
               /\ lastBlocked' = [lastBlocked EXCEPT ![s] =
                      [kind |-> kind, blocked |-> TRUE, reports |-> n]]
          ELSE /\ ProtEffect(s, BlurState(s), protTimers[s], FALSE, <<>>, <<>>)
               /\ lastBlocked' = [lastBlocked EXCEPT ![s] =
                      [kind |-> kind, blocked |-> FALSE, reports |-> 0]]
    /\ UNCHANGED <<initialized, tawkActive, docHidden, winFocused, lastViolationTime>>
    /\ ProtFrame

\* a pending timer t of script s fires
ProtTimerFire(s, t) ==
    /\ s \in loaded \cap ProtScripts
    /\ BagIn(t, protTimers[s])
    /\ t.due <= now
    /\ LET rest == protTimers[s] (-) SetToBag({t})
       IN CASE t.kind = "focus_check" ->
                 IF docHidden \/ ~winFocused
                 THEN IF s = "ucp"
                      THEN ProtEffect(s, BlurState(s), rest, TRUE, <<>>, <<>>)
                      ELSE ProtEffect(s, BlurState(s), rest, FALSE, <<"window_blur">>, <<>>)
                 ELSE ProtEffect(s, BlurState(s), rest, FALSE, <<>>, <<>>)
            [] t.kind = "hidden_check" ->
                 ProtEffect(s, BlurState(s), rest, docHidden, <<>>, <<>>)
            [] t.kind = "black_fade" ->
                 ProtEffect(s, BlurState(s),
                            IF blackScreen = t.el
                            THEN rest (+) SetToBag({[kind |-> "black_remove", el |-> t.el,
                                                     due |-> now + BLACK_FADE_MS]})
                            ELSE rest,
                            FALSE, <<>>, <<>>)
            [] OTHER ->
                 /\ blackScreen' = IF blackScreen = t.el THEN 0 ELSE blackScreen
                 /\ protTimers' = [protTimers EXCEPT ![s] = rest]
                 /\ UNCHANGED <<blurActive, blurOverlays, blurShown, blackScreensMade,
                                profViolationCount, profRequests, queueVars, urlVars>>
    /\ UNCHANGED <<initialized, tawkActive, lastBlocked, docHidden, winFocused,
                   lastViolationTime, protEvents>>
    /\ ProtFrame

\* the Close button of the black screen
BlackScreenClose ==
    /\ "ucp" \in loaded
    /\ protEvents < MaxProtEvents
    /\ blackScreen # 0
    /\ blackScreen' = 0
    /\ protEvents' = protEvents + 1
    /\ UNCHANGED <<initialized, blurActive, blurOverlays, blurShown, tawkActive,
                   blackScreensMade, protTimers, lastViolationTime, profViolationCount,
                   profRequests, lastBlocked, docHidden, winFocused, queueVars, urlVars>>
    /\ ProtFrame

\* 'pageshow' with event.persisted: initialize() runs again
PageShow(s) ==
    /\ s \in loaded \cap ProtScripts
    /\ protEvents < MaxProtEvents
    /\ initialized' = [initialized EXCEPT ![s] = @ + 1]
    /\ protEvents' = protEvents + 1
    /\ UNCHANGED <<blurActive, blurOverlays, blurShown, tawkActive, blackScreen,
                   blackScreensMade, protTimers, lastViolationTime, profViolationCount,
                   profRequests, lastBlocked, docHidden, winFocused,
                   queueVars, urlVars>>
    /\ ProtFrame

\* the Tawk chat widget is opened or closed
ToggleTawk ==
    /\ loaded \cap ProtScripts # {}
    /\ protEvents < MaxProtEvents
    /\ tawkActive' = ~tawkActive
    /\ protEvents' = protEvents + 1
    /\ UNCHANGED <<initialized, blurActive, blurOverlays, blurShown, blackScreen,
                   blackScreensMade, protTimers, lastViolationTime, profViolationCount,
                   profRequests, lastBlocked, docHidden, winFocused, queueVars, urlVars>>
    /\ ProtFrame

\* the deadlines of the pending timers of the protection scripts
ProtDueTimes ==
    {t.due : t \in UNION {BagToSet(protTimers[s]) : s \in loaded \cap ProtScripts}}

\* time passes up to the next deadline
ProtTimePasses ==
    /\ ProtDueTimes # {}
    /\ \A d \in ProtDueTimes : d > now
    /\ now' = CHOOSE d \in ProtDueTimes : \A e \in ProtDueTimes : d <= e
    /\ UNCHANGED <<loaded, queueVars, sessionVars, socketVars, keyVars, urlVars, auxVars>>

ProtPages == {{"ucp"}, {"professional"}}

InitProtect ==
    /\ loaded \in ProtPages
    /\ now = StartTime
    /\ tokenSources = [NoToken EXCEPT !.cookie = "cookie-token"]
    /\ QueueInit
    /\ SessionInit
    /\ SocketAbsent
    /\ KeysInit
    /\ UrlInit
    /\ AuxInit

NextProtect ==
    \/ \E s \in ProtScripts : ProtWindowBlur(s)
    \/ \E s \in ProtScripts : ProtWindowFocus(s)
    \/ \E s \in ProtScripts : ProtVisibilityChange(s)
    \/ \E s \in ProtScripts, kind \in ProtEventKinds, el \in ProtElements :
          BlockedEvent(s, kind, el)
    \/ \E s \in ProtScripts : \E t \in BagToSet(protTimers[s]) : ProtTimerFire(s, t)
    \/ BlackScreenClose
    \/ \E s \in ProtScripts : PageShow(s)
    \/ ToggleTawk
    \/ ProtTimePasses

SpecProtect == InitProtect /\ [][NextProtect]_vars

\* C10: the termination view is rendered exactly at the step at which the
\* violation count first reaches maxViolations (5 in the core script, 3 in
\* the banking script): it is shown if and only if the count has reached
\* the maximum, and the step that first shows it is the step that takes the
\* count from maximum - 1 to the maximum, whatever the violation kinds.
C10_TerminatedExactlyAtMax ==
    /\ [](\A s \in SessionScripts :
            body[s] = "terminated" <=> violations[s] >= MaxViolationsOf(s))
    /\ [][\A s \in SessionScripts :
            (body[s] = "page" /\ body'[s] = "terminated") =>
                /\ violations[s] = MaxViolationsOf(s) - 1
                /\ violations'[s] = MaxViolationsOf(s)]_vars

\* the termination view was just reached, after violations of both kinds
C10_Witness ==
    \E s \in SessionScripts :
        /\ body[s] = "terminated"
        /\ blockRenders[s] = 1
        /\ violations[s] = MaxViolationsOf(s)
        /\ \E j, k \in 1..Len(reports[s]) :
              /\ j < k
              /\ reports[s][j].type = "copy_attempt"
              /\ reports[s][k].type # "copy_attempt"
              /\ reports[s][k].type # "max_violations"

\* C11: once the termination view has been rendered no further event is
\* processed: a later violation event does not change the violation count,
\* sends no further log request and renders neither the termination view
\* nor a warning again.
C11_NothingAfterTermination ==
    [][\A s \in SessionScripts :
          body[s] = "terminated" =>
              /\ violations'[s] = violations[s]
              /\ reports'[s] = reports[s]
              /\ blockRenders'[s] = blockRenders[s]
              /\ warningsShown' = warningsShown]_vars

\* C12 as stated: in incrementViolation of the core script no warning banner
\* is shown while the count is below 3, it is shown once when the count
\* reaches 3, and it is not shown again for a later count.
C12_WarnedOnceAtThree ==
    warningsShown = (IF violations["core"] >= CoreWarnThreshold THEN 1 ELSE 0)

\* the counts at which incrementViolation shows the warning, up to count v
WarnedCounts(v) == {c \in 1..v : c >= CoreWarnThreshold /\ c < CoreMaxViolations}

\* C12, amended: no warning banner is shown while the count is below 3;
\* every increment that brings the count to 3 or to 4 shows the warning once
\* and makes it the only banner attached; an increment to 5 or more shows
\* none and detaches the banner.
C12_WarnedAtEveryCountFromThree ==
    /\ [](warningsShown = Cardinality(WarnedCounts(violations["core"])))
    /\ [][violations'["core"] # violations["core"] =>
            IF violations'["core"] \in WarnedCounts(violations'["core"])
            THEN /\ warningsShown' = warningsShown + 1
                 /\ violationWarning' = warningsShown'
            ELSE /\ warningsShown' = warningsShown
                 /\ (violations'["core"] >= CoreMaxViolations => violationWarning' = 0)]_vars

\* the count went from 3 to 4 and the warning was shown a second time
C12_Witness ==
    /\ violations["core"] = 4
    /\ warningsShown = 2
    /\ violationWarning = 2
    /\ body["core"] = "page"

\* the violation events handed to logSecurityEvent so far
ViolationReports(s) ==
    {i \in 1..Len(reports[s]) :
        s = "core" => reports[s][i].event = "security_violation"}

\* C13 as stated: the violation count is incremented only for violations
\* whose delivery to the backend succeeded: a violation whose log request
\* failed, was rejected or is still in flight does not count toward the
\* warning and termination thresholds.
C13_CountsOnlyDelivered ==
    \A s \in SessionScripts : violations[s] <= delivered[s]

\* C13, amended: the banking script counts exactly the violation reports
\* answered with success; the core script counts every violation at the
\* event, whether its log request is in flight, failed or succeeded.
C13_BankingCountsDeliveredCoreCountsAll ==
    /\ violations["banking"] = delivered["banking"]
    /\ violations["core"] = Cardinality(ViolationReports("core"))
    /\ delivered["core"] + coreInflight["security_violation"] <= violations["core"]

\* core: the warning threshold was reached although two log requests failed
\* and the third is still in flight
C13_Witness ==
    /\ "core" \in loaded
    /\ violations["core"] = CoreWarnThreshold
    /\ violationWarning # 0
    /\ delivered["core"] = 0
    /\ coreInflight["security_violation"] = 1

\* C14: the blurred flag and the overlay are bijective in every reachable
\* state: isBlurred is true if and only if exactly one overlay node is
\* attached to the document, including after the termination view has
\* replaced the page body.
C14_BlurFlagMatchesOverlay ==
    \A s \in SessionScripts : isBlurred[s] <=> overlays[s] = 1

\* a step of the checkSession callback
CheckSessionStep == tickDue /\ ~tickDue'

\* C15: whenever now - lastActivity exceeds the idle threshold, the next
\* checkSession run, at most one second later, redirects to sign-in with
\* reason idle, whatever the violation count; when the session cap is
\* exceeded as well the reason is still idle.
C15_IdleRedirects ==
    /\ [][(CheckSessionStep /\ now - lastActivity > idleTimeout)
            => redirect' = "idle"]_vars
    /\ [](redirect = "page" =>
            now - lastActivity <= idleTimeout + (IF tickDue THEN CHECK_INTERVAL_MS ELSE 0))

\* checkSession found the idle threshold and the session cap both exceeded,
\* after a counted violation, and redirected with reason idle
C15_Witness ==
    /\ redirect = "idle"
    /\ ~tickDue
    /\ now - lastActivity > idleTimeout
    /\ now - sessionStart > sessionTimeout
    /\ \E s \in SessionScripts : violations[s] > 0

\* C16: when now - sessionStart exceeds the session cap while the user is
\* not idle, checkSession redirects with reason expired, at most one second
\* after the cap; activity never postpones this: a step that changes
\* lastActivity leaves sessionStart and the violation count unchanged, and
\* sessionStart never changes.
C16_SessionCapRedirects ==
    /\ [][(CheckSessionStep /\ now - sessionStart > sessionTimeout
              /\ now - lastActivity <= idleTimeout)
            => redirect' = "expired"]_vars
    /\ [](redirect = "page" =>
            now - sessionStart <= sessionTimeout + (IF tickDue THEN CHECK_INTERVAL_MS ELSE 0))
    /\ [][sessionStart' = sessionStart]_vars
    /\ [][lastActivity' # lastActivity => violations' = violations]_vars

\* the session expired one second after the cap although the user was
\* active less than five minutes before
C16_Witness ==
    /\ redirect = "expired"
    /\ lastActivity > sessionStart
    /\ now - lastActivity <= idleTimeout
    /\ now - sessionStart = sessionTimeout + CHECK_INTERVAL_MS

\* C17: the idle warning is shown once per idle cycle: between two
\* activities at most one timeout warning is shown, and only by a run that
\* finds the idle time inside the warning window and warningShown false;
\* dismissing a warning sets lastActivity to now and clears warningShown, so
\* that a later idle period shows the warning again.
C17_OneWarningPerIdleCycle ==
    /\ [](warningsInCycle <= 1)
    /\ [][timeoutWarningsShown' # timeoutWarningsShown =>
            /\ ~warningShown /\ warningShown'
            /\ now - lastActivity > idleTimeout - warningTime
            /\ timeoutWarningsShown' = timeoutWarningsShown + 1]_vars
    /\ [][(timeoutWarnings' < timeoutWarnings /\ body' = body) =>
            /\ lastActivity' = now
            /\ ~warningShown'
            /\ warningsInCycle' = 0]_vars

\* a warning was dismissed and a later idle period showed the warning again
C17_Witness ==
    /\ redirect = "page"
    /\ timeoutWarningsShown = 2
    /\ timeoutWarnings = 1
    /\ warningShown
    /\ lastActivity > sessionStart

\* a close event: some socket becomes CLOSED
CloseStep == \E i \in 1..Len(sockets) : sockets[i] # "CLOSED" /\ sockets'[i] = "CLOSED"

\* a close event of a socket that had opened
CloseAfterOpenStep ==
    \E i \in 1..Len(sockets) : sockets[i] \in {"OPEN", "CLOSING"} /\ sockets'[i] = "CLOSED"

\* an open event: some socket becomes OPEN
OpenStep == \E i \in 1..Len(sockets) : sockets[i] = "CONNECTING" /\ sockets'[i] = "OPEN"

\* C18: reconnectAttempts always stays in 0..5; the close that finds five
\* retries already made schedules no further connect and shows the
\* reconnect button; while the button is shown nothing is pending and no
\* socket is alive; clicking the button resets reconnectAttempts to 0 and
\* starts a new connect.
C18_ReconnectStopsAtMax ==
    /\ [](reconnectAttempts \in 0..maxReconnectAttempts)
    /\ [][(CloseStep /\ reconnectAttempts = maxReconnectAttempts) =>
            /\ reconnectTimers' = reconnectTimers
            /\ reconnectButtons' = reconnectButtons + 1
            /\ sockets' \in [1..Len(sockets) -> ReadyStates]]_vars
    /\ [](reconnectButtons > 0 =>
            /\ reconnectButtons = 1
            /\ reconnectTimers = {}
            /\ ~isConnecting
            /\ \A i \in 1..Len(sockets) : sockets[i] = "CLOSED"
            /\ Len(delaysSinceReset) = maxReconnectAttempts)
    /\ [][reconnectButtons' < reconnectButtons =>
            /\ reconnectAttempts' = 0
            /\ Len(sockets') = Len(sockets) + 1
            /\ sockets'[ws'] = "CONNECTING"
            /\ isConnecting']_vars

\* five retries failed, the button was clicked, and the connect it started
\* failed and scheduled the first retry of a new budget
C18_Witness ==
    /\ reconnectClicks = 1
    /\ reconnectButtons = 0
    /\ reconnectAttempts = 1
    /\ Cardinality(reconnectTimers) = 1

\* C19: the delay before the n-th consecutive automatic reconnect is
\* exactly reconnectDelay * n (3000 ms * n, n = 1..5), and the first
\* reconnect after a successful open waits 3000 ms again.
C19_LinearReconnectDelay ==
    /\ [](/\ Len(delaysSinceReset) = reconnectAttempts
          /\ \A n \in 1..Len(delaysSinceReset) : delaysSinceReset[n] = reconnectDelay * n)
    /\ [][reconnectTimers' # reconnectTimers /\ CloseStep =>
            \E t \in reconnectTimers' \ reconnectTimers :
                /\ reconnectAttempts' = reconnectAttempts + 1
                /\ t.delay = reconnectDelay * reconnectAttempts'
                /\ t.due = now + t.delay]_vars
    /\ [][CloseAfterOpenStep =>
            \E t \in reconnectTimers' \ reconnectTimers : t.delay = reconnectDelay]_vars
    /\ [](\A t \in reconnectTimers : now <= t.due)

\* the fifth consecutive retry was scheduled, 15000 ms ahead
C19_Witness ==
    /\ delaysSinceReset = <<3000, 6000, 9000, 12000, 15000>>
    /\ \E t \in reconnectTimers : t.delay = 15000

\* C20: every open event resets reconnectAttempts to 0 and starts a
\* heartbeat of 30000 ms; at most one heartbeat timer exists; one exists
\* exactly while the current socket has opened and has not yet had its
\* close event; a ping is sent only while the socket is OPEN.
C20_OneHeartbeatWhileOpen ==
    /\ [][OpenStep =>
            /\ reconnectAttempts' = 0
            /\ heartbeatInterval' # 0
            /\ \E t \in heartbeatTimers' :
                  t.id = heartbeatInterval' /\ t.due = now + HEARTBEAT_MS]_vars
    /\ [](Cardinality(heartbeatTimers) <= 1)
    /\ [](heartbeatTimers # {} <=> (ws # 0 /\ sockets[ws] \in {"OPEN", "CLOSING"}))
    /\ [][pings' # pings => IsOpen]_vars

\* a retried connection opened, its heartbeat sent a ping 30 s later, and
\* the socket is now in its closing handshake with the heartbeat still live
C20_Witness ==
    /\ pings = 1
    /\ ws > 1
    /\ sockets[ws] = "CLOSING"
    /\ heartbeatTimers # {}
    /\ reconnectAttempts = 0

\* ------------------------------------------------------------------------
\* Claims about the frames of the notification socket
\* ------------------------------------------------------------------------
\* the count the badge displays: nothing is displayed while it is hidden
DisplayedCount == IF badgeShown THEN parseInt(badgeText) ELSE 0

\* a message event with a frame of the given type is handled
FrameStep(type) == framesReceived' = framesReceived + 1 /\ lastFrame' = type

\* C21: with the badge in the page, a handled new_notification frame raises
\* the displayed count by exactly 1 (below the 99+ cap) and shows exactly one
\* toast, a mark_all_read_response makes the displayed count 0, and the
\* first new_notification after a displayed count of 0 shows a badge of 1.
C21_BadgeCountsNotifications ==
    [][ /\ (FrameStep("new_notification") /\ badgePresent /\ toastsShown' # toastsShown)
           => /\ toastsShown' = toastsShown + 1
              /\ DisplayedCount < 99 => DisplayedCount' = DisplayedCount + 1
              /\ DisplayedCount = 0 => (badgeShown' /\ badgeText' = <<"1">>)
        /\ (FrameStep("mark_all_read_response") /\ badgePresent) => DisplayedCount' = 0
      ]_vars

\* markAsRead, markAllAsRead or loadNotifications is called from the page
CallStep == callsMade' = callsMade + 1

\* C22: a call of markAsRead, markAllAsRead or loadNotifications sends
\* exactly one frame when the socket is open and none otherwise; no other
\* step (a reconnect, an open event, a timer) sends a frame for an earlier
\* call: apart from the calls, only the reload that handleNewNotification
\* makes with the menu open sends one, on the open socket.
C22_SendOnlyWhenOpen ==
    [][ /\ CallStep => sentFrames' = sentFrames + (IF IsOpen THEN 1 ELSE 0)
        /\ (~CallStep /\ ~FrameStep("new_notification")) => sentFrames' = sentFrames
        /\ FrameStep("new_notification") =>
              \/ sentFrames' = sentFrames
              \/ sentFrames' = sentFrames + 1 /\ IsOpen /\ menuOpen
      ]_vars

\* a call was made while the socket was not open and sent nothing; the
\* socket was then replaced and the new one is open, a frame was handled and
\* still nothing has been sent
C22_Witness ==
    /\ callsMade = 1
    /\ sentFrames = 0
    /\ framesReceived > 0
    /\ ws = 2
    /\ IsOpen

\* a message event is handled, whatever its frame
AnyFrameStep == framesReceived' = framesReceived + 1

\* C23: a frame whose type is none of the seven supported types, or that is
\* not JSON, leaves the badge, the notification list, the toasts, the
\* sockets and reconnectAttempts unchanged and sends nothing; no message
\* event, malformed or not, changes the sockets, the connection flags or the
\* timers.
C23_UnknownFrameIgnored ==
    [][ /\ (AnyFrameStep /\ lastFrame' \notin InboundTypes)
           => UNCHANGED <<badgeText, badgeShown, notifList, toastsShown, sentFrames, pings>>
        /\ AnyFrameStep
           => UNCHANGED <<sockets, ws, isConnecting, reconnectAttempts, reconnectTimers,
                          reconnectButtons, heartbeatInterval, heartbeatTimers>>
      ]_vars

\* a frame of an unsupported type was handled while the badge showed a
\* count and the socket stayed open
C23_Witness ==
    /\ lastFrame = "typing"
    /\ badgeShown
    /\ notifList = "items"
    /\ IsOpen

\* the heartbeat interval callback runs: a timer is re-armed one period later
HeartbeatStep ==
    \E t \in heartbeatTimers :
        /\ t \notin heartbeatTimers'
        /\ [t EXCEPT !.due = @ + HEARTBEAT_MS] \in heartbeatTimers'
        /\ heartbeatInterval' = heartbeatInterval

\* C30: a pong frame changes nothing in the page or the connection; a
\* heartbeat callback, however many pongs are missing, leaves the sockets,
\* reconnectAttempts and the reconnect timers unchanged; a reconnect timer is
\* armed only by a close event.
C30_HeartbeatNeverVerified ==
    [][ /\ FrameStep("pong")
           => UNCHANGED <<badgeText, badgeShown, notifList, toastsShown, sentFrames, pings,
                          sockets, ws, isConnecting, reconnectAttempts, reconnectTimers,
                          reconnectButtons, heartbeatInterval, heartbeatTimers>>
        /\ HeartbeatStep
           => UNCHANGED <<sockets, ws, isConnecting, reconnectAttempts, reconnectTimers,
                          reconnectButtons>>
        /\ ~(reconnectTimers' \subseteq reconnectTimers) => CloseStep
      ]_vars

\* two pings were sent and a single pong arrived, with the badge showing a
\* count: the socket is still open and no reconnect is pending
C30_Witness ==
    /\ pings >= 2
    /\ framesReceived = 2
    /\ lastFrame = "pong"
    /\ badgeShown
    /\ IsOpen
    /\ reconnectTimers = {}

\* ------------------------------------------------------------------------
\* Claims about the keyboard listeners
\* ------------------------------------------------------------------------
\* exactly these modifiers are held
Holds(e, ctrl, shift, meta, alt) ==
    e.ctrl = ctrl /\ e.shift = shift /\ e.meta = meta /\ e.alt = alt

\* the kind that the key-combination table gives to an event
TableKind(e) ==
    CASE e.key = "F12" /\ Holds(e, FALSE, FALSE, FALSE, FALSE) -> "DevToolsOpened"
      [] e.key \in {"i", "j", "c"} /\ Holds(e, TRUE, TRUE, FALSE, FALSE) -> "DevToolsOpened"
      [] e.key = "u" /\ Holds(e, TRUE, FALSE, FALSE, FALSE) -> "ViewSourceAttempt"
      [] e.key = "s" /\ Holds(e, TRUE, FALSE, FALSE, FALSE) -> "SaveAttempt"
      [] e.key = "p" /\ Holds(e, TRUE, FALSE, FALSE, FALSE) -> "PrintAttempt"
      [] e.key = "c" /\ (Holds(e, TRUE, FALSE, FALSE, FALSE) \/ Holds(e, FALSE, FALSE, TRUE, FALSE))
            -> "CopyAttempt"
      [] e.key = "x" /\ (Holds(e, TRUE, FALSE, FALSE, FALSE) \/ Holds(e, FALSE, FALSE, TRUE, FALSE))
            -> "CutAttempt"
      [] e.key = "a" /\ (Holds(e, TRUE, FALSE, FALSE, FALSE) \/ Holds(e, FALSE, FALSE, TRUE, FALSE))
            -> "SelectAllAttempt"
      [] e.key = "PrintScreen" /\ (Holds(e, FALSE, FALSE, FALSE, FALSE) \/ Holds(e, FALSE, FALSE, FALSE, TRUE))
            -> "Screenshot"
      [] e.key = "s" /\ Holds(e, FALSE, TRUE, TRUE, FALSE) -> "SnippingToolAttempt"
      [] e.key = "3" /\ Holds(e, FALSE, TRUE, TRUE, FALSE) -> "Screenshot"
      [] OTHER -> "None"

\* the table kind that a reported violation type stands for
ReportedKind(type) ==
    CASE type \in {"f12_blocked", "inspect_blocked", "console_blocked", "devtools_detected"}
            -> "DevToolsOpened"
      [] type = "view_source_blocked" -> "ViewSourceAttempt"
      [] type = "save_blocked" -> "SaveAttempt"
      [] type = "print_blocked" -> "PrintAttempt"
      [] type \in {"ctrl_c_blocked", "copy_attempt"} -> "CopyAttempt"
      [] type = "ctrl_x_blocked" -> "CutAttempt"
      [] type \in {"screenshot_attempt", "printscreen_key"} -> "Screenshot"
      [] type \in {"screenshot_tool_detected", "snipping_tool"} -> "SnippingToolAttempt"
      [] OTHER -> "None"

\* the rows of the table that the keydown listener of a script reports
RowsOf(s) ==
    CASE s = "strict" -> {"DevToolsOpened", "ViewSourceAttempt", "SaveAttempt", "PrintAttempt",
                          "CopyAttempt", "CutAttempt"}
      [] s = "banking" -> {"Screenshot", "SnippingToolAttempt", "CopyAttempt", "DevToolsOpened"}
      [] s = "ucp" -> {"Screenshot", "SnippingToolAttempt"}

\* C24: a keydown that matches a row of the combination table, with focus on
\* page content, is default-prevented by the strict, banking and ucp
\* listeners and reported with the kind of its row (Ctrl+Shift+C as developer
\* tools, Meta+Shift+S as the snipping tool).
C24_TableKindReported ==
    (keyEvent.phase = "keydown" /\ keyEvent.focus = "content")
    => \A s \in {"strict", "banking", "ucp"} :
          (s \in loaded /\ TableKind(keyEvent) \in RowsOf(s))
          => /\ prevented[s]
             /\ Len(calls[s]) = 1
             /\ ReportedKind(calls[s][1]) = TableKind(keyEvent)

\* the elements the exemption policy names: form controls, allow-listed
\* navigation elements, the chat widget
PolicyExempt(el) == el \in {"input", "form_input", "nav_link", "chat"}

\* C25: a keydown while the focused element is a form control, a navigation
\* element or part of the chat widget is exempt for the strict and the
\* warning-only listeners: neither prevents the default action nor reports
\* a violation.
C25_ExemptFocusUntouched ==
    (keyEvent.phase = "keydown" /\ PolicyExempt(keyEvent.focus))
    => \A s \in {"strict", "warning_only"} :
          s \in loaded => (~prevented[s] /\ calls[s] = <<>>)

\* C27: one press and release of PrintScreen, alone or with Alt, raises the
\* violation count of the core script by at most one and makes the
\* screenshot script and the ultimate script report at most once each.
C27_OnePressOneViolation ==
    (keyEvent.key = "PrintScreen"
        /\ (Holds(keyEvent, FALSE, FALSE, FALSE, FALSE) \/ Holds(keyEvent, FALSE, FALSE, FALSE, TRUE)))
    => /\ violations["core"] - pressBase <= 1
       /\ Len(calls["screenshot"]) <= 1
       /\ Len(calls["ultimate"]) <= 1

\* ------------------------------------------------------------------------
\* Claims about the token lookup
\* ------------------------------------------------------------------------
\* the first available source in the order meta tag, form field, cookie
FirstByPriority(src) ==
    IF src.meta # "" THEN src.meta ELSE IF src.form # "" THEN src.form ELSE src.cookie

\* C26: every token lookup returns the first available source in the order
\* meta tag, form hidden field, cookie, and finds no token only when all
\* three are absent.
C26_TokenPriority ==
    \A s \in {"warning_only", "banking", "advanced"} :
        tokenFound[s] # "unread" => tokenFound[s] = FirstByPriority(tokenSources)

\* ------------------------------------------------------------------------
\* Claims about the violation counters
\* ------------------------------------------------------------------------
\* C28: the violation counters of the core, banking and ucp scripts never
\* decrease and change only by +1: a warning, a blur, an unblur, an activity
\* update, a session check, a timer or a termination leaves them as they are.
C28_CountersOnlyStepUp ==
    [][ /\ \A s \in SessionScripts :
              violations'[s] = violations[s] \/ violations'[s] = violations[s] + 1
        /\ violationCount' = violationCount \/ violationCount' = violationCount + 1
        /\ (violations' # violations \/ violationCount' # violationCount)
              => UNCHANGED <<isBlurred, lastActivity, redirect, now>>
      ]_vars

\* the core script has terminated the session after a blur and an unblur,
\* the idle redirect has happened and the count is still the maximum
C28_Witness ==
    /\ violations["core"] = CoreMaxViolations
    /\ body["core"] = "terminated"
    /\ coreInflight["screen_blurred"] > 0
    /\ ~isBlurred["core"]
    /\ redirect # "page"
    /\ lastActivity > StartTime

\* ------------------------------------------------------------------------
\* Claims about the request bodies of the queued reporters
\* ------------------------------------------------------------------------
\* C29: every payload handed to fetch() carries the URL and the time at
\* which its event fired, fixed when the record was pushed, whatever happened
\* between the push and the send.
C29_PayloadFixedAtEvent ==
    \A s \in {"warning_only", "ucp"} :
        \A i \in 1..Len(payloads[s]) :
            /\ payloads[s][i].timestamp = firedAt[s][payloads[s][i].id].time
            /\ payloads[s][i].page_url = firedAt[s][payloads[s][i].id].url

\* ------------------------------------------------------------------------
\* C32: in the core script the page is sent to the sign-in URL with reason
\* idle only when no user-activity event happened during the idle threshold
\* that precedes the redirect: activity after the timeout warning appeared
\* keeps the warning's own 2-minute timer from redirecting.
C32_IdleRedirectOnlyAfterIdle ==
    [][("core" \in loaded /\ redirect = "page" /\ redirect' = "idle")
          => now - lastActivity > idleTimeout]_vars

\* ------------------------------------------------------------------------
\* the sockets of NotificationWebSocket that are connecting or open
LiveSockets == {i \in 1..Len(sockets) : sockets[i] \in {"CONNECTING", "OPEN"}}

\* C33: at most one WebSocket created by NotificationWebSocket is in
\* Connecting or Open state at any time: a new socket is created only when
\* none is connecting or open, no reconnect timer is pending while a socket
\* is connecting or open, and the reconnect button is displayed only when
\* neither a socket nor a reconnect timer is live.
C33_AtMostOneLiveSocket ==
    /\ [](Cardinality(LiveSockets) <= 1)
    /\ [][Len(sockets') > Len(sockets) =>
            /\ LiveSockets = {}
            /\ ~isConnecting
            /\ Len(sockets') = Len(sockets) + 1]_vars
    /\ [](LiveSockets # {} => reconnectTimers = {})
    /\ [](reconnectButtons > 0 => LiveSockets = {} /\ reconnectTimers = {})

\* the retry budget ran out, the reconnect button was clicked, and the
\* socket its connect() created has opened: it is the only live one
C33_Witness ==
    /\ reconnectClicks = 1
    /\ reconnectButtons = 0
    /\ IsOpen
    /\ LiveSockets = {ws}
    /\ Len(sockets) > maxReconnectAttempts + 1

\* ------------------------------------------------------------------------
\* a logActivity / logViolation call of s
EnqueueStep(s) == Len(enqueued'[s]) > Len(enqueued[s])

\* C34: after finitely many enqueues every queued reporter reaches the idle
\* state again (queue empty, isLogging false, no pending timer, no pending
\* request), provided every fetch settles; also when the token is missing
\* for good; and an enqueue made while idle starts the drain loop again.
C34_DrainLoopTerminates ==
    /\ \A s \in QueueScripts : (s \in loaded /\ ~Idle(s)) ~> Idle(s)
    /\ [][\A s \in QueueScripts :
            (Idle(s) /\ EnqueueStep(s)) =>
                /\ isLogging'[s]
                /\ logQueue'[s] = <<>>
                /\ timers'[s] # <<>> \/ inflight'[s] # <<>>]_vars

\* without a token, a reporter came to rest, was given a record later, and
\* is at rest again
C34_Witness ==
    \E s \in loaded \cap QueueScripts :
        /\ ~TokenAvailable
        /\ Idle(s)
        /\ Len(enqueued[s]) >= 2
        /\ pushedAt[s].last > pushedAt[s].first
        /\ lastTick[s].outcome = "empty"

\* ------------------------------------------------------------------------
\* a drain step of s that takes a record from its queue
DrainTakes(s) == lastTick'[s] # lastTick[s] /\ lastTick'[s].id # 0

\* some request of a debounced script other than s was sent less than
\* 2000 ms ago
OtherSentRecently(s) ==
    \E u \in DebouncedScripts \ {s} :
        lastSentAt[u] # 0 /\ now - lastSentAt[u] < DEBOUNCE_MS

\* C37: on a page with both the warning-only and the strict script the two
\* queues share window.lastLogTime: every send of either queue stamps it,
\* any two sends of either queue are at least 2000 ms apart, and after a
\* send of one queue the other queue treats the records it takes within
\* 2000 ms as inside the debounce window and sends none of them.
C37_SharedDebounceWindow ==
    /\ [][\A s \in DebouncedScripts :
            SendStep(s) =>
                /\ lastLogTime' = now
                /\ \A u \in DebouncedScripts :
                      lastSentAt[u] # 0 => now - lastSentAt[u] >= DEBOUNCE_MS]_vars
    /\ [](\A s, u \in DebouncedScripts :
            (lastSentAt[s] # 0 /\ lastSentAt[u] # 0 /\ s # u) =>
                \/ lastSentAt[s] - lastSentAt[u] >= DEBOUNCE_MS
                \/ lastSentAt[u] - lastSentAt[s] >= DEBOUNCE_MS)
    /\ [][\A s \in DebouncedScripts :
            (DrainTakes(s) /\ OtherSentRecently(s)) =>
                /\ lastTick'[s].outcome = "debounce"
                /\ sent'[s] = sent[s]
                /\ lastLogTime' = lastLogTime]_vars

\* the strict queue sent a request, the warning-only queue had a record
\* skipped inside the window of that send and sent a later record once
\* the window was over
C37_Witness ==
    /\ loaded = DebouncedScripts
    /\ Len(sent["strict"]) = 1
    /\ Len(sent["warning_only"]) = 1
    /\ Len(enqueued["warning_only"]) = 2
    /\ lastSentAt["warning_only"] >= lastSentAt["strict"] + DEBOUNCE_MS

\* ------------------------------------------------------------------------
\* a poll of the size heuristic of s
PollStep(s) == pollDue'[s] # pollDue[s]

\* the loaded scripts whose heuristic has a reporting function to call: the
\* screenshot script reports through window.CustomerSecurity of the core
\* script and only shows its warning when that object is missing
ReportingDevScripts ==
    {s \in loaded \cap DevScripts : s = "screenshot" => "core" \in loaded}

\* C35: the window-size heuristic is edge-triggered in the strict, ultimate,
\* screenshot and banking scripts: while consecutive polls all see a size
\* difference above the threshold, exactly one violation is reported for
\* that episode, and a poll reports a new one only after some poll has seen
\* the difference at or below the threshold.
C35_OneReportPerEpisode ==
    /\ [](\A s \in ReportingDevScripts : pollsAbove[s] >= 1 => episodeReports[s] = 1)
    /\ [][\A s \in ReportingDevScripts :
            (PollStep(s) /\ episodeReports'[s] > episodeReports[s]) => pollsAbove[s] = 0]_vars

\* ------------------------------------------------------------------------
\* C36: in the advanced-detection script the content-protected overlay is
\* attached to the page whenever the document is hidden or the window is
\* unfocused, for every interleaving of focus, blur and visibilitychange
\* events with the 300 ms delayed removal started by unblurContent.
C36_OverlayWhileUnseen ==
    (docHidden \/ ~winFocused) => advOverlay # 0

\* ------------------------------------------------------------------------
\* C31: in the ucp and professional scripts the blurred state returns to
\* normal when the triggering condition clears: the blur flag is set exactly
\* while the overlay is attached; whenever the window regains focus or the
\* page becomes visible again the overlay is removed and the flag becomes
\* false; and a later focus loss or hiding (Tawk chat not active) presents
\* the overlay again.
\* ------------------------------------------------------------------------
RegainStep == (~winFocused /\ winFocused') \/ (docHidden /\ ~docHidden')
LoseStep == (winFocused /\ ~winFocused') \/ (~docHidden /\ docHidden')

C31_BlurredReturnsToNormal ==
    /\ [](\A s \in ProtScripts : blurActive[s] <=> blurOverlays[s] = 1)
    /\ [](\A s \in ProtScripts : blurOverlays[s] \in {0, 1})
    /\ [][\A s \in loaded \cap ProtScripts :
            RegainStep => (blurOverlays'[s] = 0 /\ ~blurActive'[s])]_vars
    /\ [][\A s \in loaded \cap ProtScripts :
            (LoseStep /\ ~tawkActive) => (blurOverlays'[s] = 1 /\ blurActive'[s])]_vars

\* the overlay is attached for the second time
C31_Witness ==
    \E s \in loaded \cap ProtScripts :
        blurShown[s] >= 2 /\ blurOverlays[s] = 1 /\ blurActive[s]

\* ------------------------------------------------------------------------
\* C38: in the ucp and professional scripts a blocked right-click, copy or
\* shortcut logs its violation exactly once, also after a restore from the
\* back/forward cache.
\* ------------------------------------------------------------------------
C38_OneViolationPerBlockedEvent ==
    \A s \in ProtScripts : lastBlocked[s].blocked => lastBlocked[s].reports = 1

====
